---- MODULE Spec2Model ----
(***************************************************************************)
(* Opening-explorer indexing engine: the per-key entry codecs              *)
(* (model/lichess.rs, model/player.rs) and the game importers              *)
(* (importer.rs), as state machines over byte blobs and a key-value store. *)
(***************************************************************************)
EXTENDS Integers, Sequences, FiniteSets, TLC

VARIABLES
    kind,        \* which codec / which importer the behaviour exercises
    entry,       \* the aggregated entry at one key (LichessEntry / PlayerEntry)
    operand,     \* a second entry, whose encoding is merged into `entry`
    created,     \* ids of the games whose single-game increment has been created
    last,        \* what the last codec operation did (operation, inputs, results)
    games_db,    \* store: game id -> game metadata
    entries_db,  \* store: key -> sequence of merge operands (single-game increments)
    pc,          \* per import task: position in MastersImporter/LichessImporter::import
    req,         \* per import task: the request body being imported
    ret,         \* per import task: result of the last finished import call
    hist,        \* per import task: what the call in progress or last finished did
    ncalls,      \* number of import calls started
    sel,         \* the last call of a pure function: its name, arguments and result
    pgns,        \* bulk loader: the build, the arguments and the PGN files given
    main,        \* bulk loader: position of the main thread (which runs the parser)
    importer,    \* bulk loader: the Importer visitor (current, skip, batch)
    chan,        \* bulk loader: the bounded channel (queue, senders alive)
    bg,          \* bulk loader: the background thread (position, batch in hand)
    shipped,     \* bulk loader: the batches sent over HTTP, in order
    status,      \* player indexer: the PlayerStatus of one player
    now,         \* player indexer: SystemTime::now(), in seconds since the epoch
    log          \* player indexer (ghost): how the status was constructed, when
                 \* the last index run finished, how often the clock has moved

vars == <<kind, entry, operand, created, last,
          games_db, entries_db, pc, req, ret, hist, ncalls, sel,
          pgns, main, importer, chan, bg, shipped, status, now, log>>

codecVars == <<kind, entry, operand, created, last>>
importVars == <<games_db, entries_db, pc, req, ret, hist, ncalls>>
loaderVars == <<pgns, main, importer, chan, bg, shipped>>
statusVars == <<status, now, log>>

\* The player status belongs to the player indexer: it is absent from the other
\* behaviours.
NoStatus == status = <<>> /\ now = <<>> /\ log = <<>>

\* The bulk loader is a separate program: it is absent from the other behaviours.
NoLoader ==
    /\ pgns = <<>> /\ main = <<>> /\ importer = <<>>
    /\ chan = <<>> /\ bg = <<>> /\ shipped = <<>>

(***************************************************************************)
(* Program constants and model bounds                                      *)
(***************************************************************************)
MAX_LICHESS_GAMES == 8
MAX_PLAYER_GAMES == 8
MAX_PLIES == 40

\* bound: largest number of games the operand may account for
MaxOperandTotal == 2
\* bound: number of import calls started in one behaviour
MaxCalls == 3
\* bound: number of moves of the longest imported game
MaxMoves == 41
\* bound: largest number of games one entry may account for (stats total)
MaxTotal == 12

Min(a, b) == IF a < b THEN a ELSE b
Max(a, b) == IF a > b THEN a ELSE b

RECURSIVE Flatten(_)
Flatten(ss) == IF ss = <<>> THEN <<>> ELSE Head(ss) \o Flatten(Tail(ss))

\* All orderings (sequences without repetition) of the elements of a finite set.
RECURSIVE Orderings(_)
Orderings(S) ==
    IF S = {} THEN {<<>>}
    ELSE UNION {{<<x>> \o o : o \in Orderings(S \ {x})} : x \in S}

(***************************************************************************)
(* Primitive codecs (crate::model: read_uint, write_uint, read_uci,        *)
(* write_uci, GameId, Stats)                                               *)
(***************************************************************************)
\* A read result: err is "none", "UnexpectedEof" or "InvalidData".
Fail(kindOfErr) == [err |-> kindOfErr, val |-> 0, pos |-> 0]
Got(v, p) == [err |-> "none", val |-> v, pos |-> p]

ReadU8(b, i) == IF i > Len(b) THEN Fail("UnexpectedEof") ELSE Got(b[i], i + 1)

\* Unsigned LEB128: 7 data bits per byte, low group first, high bit = continuation.
RECURSIVE WriteUint(_)
WriteUint(n) ==
    IF n < 128 THEN <<n>> ELSE <<128 + (n % 128)>> \o WriteUint(n \div 128)

RECURSIVE ReadUintFrom(_, _, _, _)
ReadUintFrom(b, i, mult, acc) ==
    IF i > Len(b) THEN Fail("UnexpectedEof")
    ELSE IF b[i] >= 128
         THEN ReadUintFrom(b, i + 1, mult * 128, acc + (b[i] - 128) * mult)
         ELSE Got(acc + b[i] * mult, i + 1)

ReadUint(b, i) == ReadUintFrom(b, i, 1, 0)

\* A move: squares are 0..63 (a1 = 0, h8 = 63), role 0 = no promotion.
Square(file, rank) == (rank - 1) * 8 + (file - 1)
NormalUci(from, to) == [from |-> from, to |-> to, role |-> 0]
G1F3 == NormalUci(Square(7, 1), Square(6, 3))
D2D4 == NormalUci(Square(4, 2), Square(4, 4))
E2E4 == NormalUci(Square(5, 2), Square(5, 4))

\* Fixed 2-byte layout, little endian: from | to << 6 | role << 12.
WriteUci(uci) ==
    LET n == uci.from + uci.to * 64 + uci.role * 4096
    IN  <<n % 256, n \div 256>>

ReadUci(b, i) ==
    IF i + 1 > Len(b) THEN Fail("UnexpectedEof")
    ELSE LET n == b[i] + b[i + 1] * 256
             role == n \div 4096
         IN  IF role > 6 THEN Fail("InvalidData")
             ELSE Got([from |-> n % 64, to |-> (n \div 64) % 64, role |-> role], i + 2)

\* A game id: 8 alphanumeric characters, transmitted as 8 bytes.
GameIdOf(c) == [k \in 1..8 |-> 97 + c]
WriteGameId(id) == id
ReadGameId(b, i) ==
    IF i + 7 > Len(b) THEN Fail("UnexpectedEof")
    ELSE Got(SubSeq(b, i, i + 7), i + 8)

\* Statistics aggregate.
StatsDefault == [white |-> 0, draws |-> 0, black |-> 0, rating_sum |-> 0]
StatsNewSingle(outcome, rating) ==
    [white |-> IF outcome = "white" THEN 1 ELSE 0,
     draws |-> IF outcome = "draw" THEN 1 ELSE 0,
     black |-> IF outcome = "black" THEN 1 ELSE 0,
     rating_sum |-> rating]
StatsAdd(a, b) ==
    [white |-> a.white + b.white, draws |-> a.draws + b.draws,
     black |-> a.black + b.black, rating_sum |-> a.rating_sum + b.rating_sum]
StatsTotal(s) == s.white + s.draws + s.black
StatsIsEmpty(s) == StatsTotal(s) = 0
StatsIsSingle(s) == StatsTotal(s) = 1
StatsWrite(s) ==
    WriteUint(s.white) \o WriteUint(s.draws) \o WriteUint(s.black)
        \o WriteUint(s.rating_sum)
StatsRead(b, i) ==
    LET w == ReadUint(b, i) IN
    IF w.err # "none" THEN w ELSE
    LET d == ReadUint(b, w.pos) IN
    IF d.err # "none" THEN d ELSE
    LET k == ReadUint(b, d.pos) IN
    IF k.err # "none" THEN k ELSE
    LET r == ReadUint(b, k.pos) IN
    IF r.err # "none" THEN r ELSE
    Got([white |-> w.val, draws |-> d.val, black |-> k.val, rating_sum |-> r.val],
        r.pos)

(***************************************************************************)
(* Enum partitions                                                         *)
(***************************************************************************)
SpeedALL == <<"UltraBullet", "Bullet", "Blitz", "Rapid", "Classical", "Correspondence">>
Speeds == {SpeedALL[k] : k \in 1..6}
RatingGroupALL ==
    <<"GroupLow", "Group1600", "Group1800", "Group2000",
      "Group2200", "Group2500", "Group2800", "Group3200">>
RatingGroups == {RatingGroupALL[k] : k \in 1..8}
ModeALL == <<"Casual", "Rated">>
Modes == {"Casual", "Rated"}

IndexOf(seq, x) == CHOOSE k \in 1..Len(seq) : seq[k] = x

\* Variant of select_avg with a Group2800 tier below 3200.
select_avgWithGroup2800(avg) ==
    IF avg < 1600 THEN "GroupLow"
    ELSE IF avg < 1800 THEN "Group1600"
    ELSE IF avg < 2000 THEN "Group1800"
    ELSE IF avg < 2200 THEN "Group2000"
    ELSE IF avg < 2500 THEN "Group2200"
    ELSE IF avg < 2800 THEN "Group2500"
    ELSE IF avg < 3200 THEN "Group2800"
    ELSE "Group3200"

select_avg(avg) ==
    IF avg < 1600 THEN "GroupLow"
    ELSE IF avg < 1800 THEN "Group1600"
    ELSE IF avg < 2000 THEN "Group1800"
    ELSE IF avg < 2200 THEN "Group2000"
    ELSE IF avg < 2500 THEN "Group2200"
    ELSE IF avg < 2800 THEN "Group2500"
    ELSE "Group3200"

\* u16 arithmetic
U16(x) == x % 65536

\* Variant of select that subtracts the opponent's rating from the mover's.
selectMoverMinusOpponent(mover_rating, opponent_rating) ==
    IF U16(mover_rating - opponent_rating) >= 150
    THEN "Group3200"
    ELSE select_avg(U16((mover_rating \div 2) + (opponent_rating \div 2)))

select(mover_rating, opponent_rating) ==
    IF U16(Max(mover_rating, opponent_rating) - Min(mover_rating, opponent_rating)) >= 150
    THEN "Group3200"
    ELSE select_avg(U16((mover_rating \div 2) + (opponent_rating \div 2)))

(***************************************************************************)
(* Groups and entries                                                      *)
(***************************************************************************)
\* LichessGroup: stats plus the list of (game index, game id) pairs.
GroupDefault == [stats |-> StatsDefault, games |-> <<>>]
\* Variant of add_assign that assigns instead of adding.
GroupAssign(lhs, rhs) == rhs

\* Variant of += that puts the new games in front of the list.
GroupAddFront(lhs, rhs) ==
    [stats |-> StatsAdd(lhs.stats, rhs.stats), games |-> rhs.games \o lhs.games]

GroupAdd(lhs, rhs) ==
    [stats |-> StatsAdd(lhs.stats, rhs.stats), games |-> lhs.games \o rhs.games]

Parts(k) == IF k = "lichess" THEN RatingGroups ELSE Modes
PartALL(k) == IF k = "lichess" THEN RatingGroupALL ELSE ModeALL
SubEntryDefault(k) == [s \in Speeds |-> [p \in Parts(k) |-> GroupDefault]]

\* Option<u64>: <<>> is None, <<n>> is Some(n).
None == <<>>
Some(n) == <<n>>
EntryDefault == [sub_entries |-> <<>>, max_game_idx |-> None]
OrDefault(k, sub_entries, uci) ==
    IF uci \in DOMAIN sub_entries THEN sub_entries
    ELSE [u \in DOMAIN sub_entries \cup {uci} |->
            IF u = uci THEN SubEntryDefault(k) ELSE sub_entries[u]]

\* Variant of the games loop that forgets the offset: game_idx = read_uint(reader).
RECURSIVE ReadGamesNoBase(_, _, _, _, _, _)
ReadGamesNoBase(b, i, base_game_idx, n, max_game_idx, games) ==
    IF n = 0
    THEN [err |-> "none", pos |-> i, max_game_idx |-> max_game_idx, games |-> games]
    ELSE
    LET r == ReadUint(b, i) IN
    IF r.err # "none"
    THEN [err |-> r.err, pos |-> i, max_game_idx |-> max_game_idx, games |-> games]
    ELSE
    LET game_idx == r.val
        mx == Some(Max(IF max_game_idx = None THEN 0 ELSE max_game_idx[1], game_idx))
        g == ReadGameId(b, r.pos)
    IN  IF g.err # "none"
        THEN [err |-> g.err, pos |-> r.pos, max_game_idx |-> mx, games |-> games]
        ELSE ReadGamesNoBase(b, g.pos, base_game_idx, n - 1, mx,
                             Append(games, <<game_idx, g.val>>))

\* The games loop of extend_from_reader: n times, read a relative index and an id.
RECURSIVE ReadGames(_, _, _, _, _, _)
ReadGames(b, i, base_game_idx, n, max_game_idx, games) ==
    IF n = 0
    THEN [err |-> "none", pos |-> i, max_game_idx |-> max_game_idx, games |-> games]
    ELSE
    LET r == ReadUint(b, i) IN
    IF r.err # "none"
    THEN [err |-> r.err, pos |-> i, max_game_idx |-> max_game_idx, games |-> games]
    ELSE
    LET game_idx == base_game_idx + r.val
        mx == Some(Max(IF max_game_idx = None THEN 0 ELSE max_game_idx[1], game_idx))
        g == ReadGameId(b, r.pos)
    IN  IF g.err # "none"
        THEN [err |-> g.err, pos |-> r.pos, max_game_idx |-> mx, games |-> games]
        ELSE ReadGames(b, g.pos, base_game_idx, n - 1, mx,
                       Append(games, <<game_idx, g.val>>))

\* Variant of the write that keeps the first maxGames of the list (take, not skip).
WriteGamesOldest(games, maxGames) ==
    Flatten([k \in 1..Min(Len(games), maxGames) |->
                WriteUint(games[k][1]) \o WriteGameId(games[k][2])])

\* The games a write emits for one group: the last maxGames of the list.
WriteGames(games, maxGames) ==
    LET skip == IF Len(games) > maxGames THEN Len(games) - maxGames ELSE 0
    IN  Flatten([k \in 1..(Len(games) - skip) |->
                    WriteUint(games[skip + k][1]) \o WriteGameId(games[skip + k][2])])

(***************************************************************************)
(* Lichess entry codec (model/lichess.rs)                                  *)
(***************************************************************************)
HeaderEnd == [tag |-> "End", speed |-> "", part |-> "", num_games |-> 0]
HeaderGroup(speed, part, num_games) ==
    [tag |-> "Group", speed |-> speed, part |-> part, num_games |-> num_games]

\* Variant of the header read that takes the speed tag 7 for End.
LichessHeaderReadTag7AsEnd(b, i) ==
    LET r == ReadU8(b, i) IN
    IF r.err # "none" THEN r ELSE
    LET n == r.val IN
    IF n % 8 = 0 \/ n % 8 = 7 THEN Got(HeaderEnd, r.pos)
    ELSE
    LET speed == SpeedALL[n % 8]
        rating_group == RatingGroupALL[((n \div 8) % 8) + 1]
        at_least_num_games == n \div 64
    IN  IF at_least_num_games >= 3
        THEN LET v == ReadUint(b, r.pos) IN
             IF v.err # "none" THEN v
             ELSE Got(HeaderGroup(speed, rating_group, v.val), v.pos)
        ELSE Got(HeaderGroup(speed, rating_group, at_least_num_games), r.pos)

LichessHeaderRead(b, i) ==
    LET r == ReadU8(b, i) IN
    IF r.err # "none" THEN r ELSE
    LET n == r.val IN
    IF n % 8 = 0 THEN Got(HeaderEnd, r.pos)
    ELSE IF n % 8 = 7 THEN Fail("InvalidData")
    ELSE
    LET speed == SpeedALL[n % 8]
        rating_group == RatingGroupALL[((n \div 8) % 8) + 1]
        at_least_num_games == n \div 64
    IN  IF at_least_num_games >= 3
        THEN LET v == ReadUint(b, r.pos) IN
             IF v.err # "none" THEN v
             ELSE Got(HeaderGroup(speed, rating_group, v.val), v.pos)
        ELSE Got(HeaderGroup(speed, rating_group, at_least_num_games), r.pos)

\* Variant of the header write without the extended num_games varint.
LichessHeaderWriteNoVarint(h) ==
    IF h.tag = "End" THEN <<0>>
    ELSE <<IndexOf(SpeedALL, h.speed)
             + (IndexOf(RatingGroupALL, h.part) - 1) * 8
             + Min(3, h.num_games) * 64>>

LichessHeaderWrite(h) ==
    IF h.tag = "End" THEN <<0>>
    ELSE <<IndexOf(SpeedALL, h.speed)
             + (IndexOf(RatingGroupALL, h.part) - 1) * 8
             + Min(3, h.num_games) * 64>>
         \o (IF h.num_games >= 3 THEN WriteUint(h.num_games) ELSE <<>>)

LichessNewSingle(uci, speed, game_id, outcome, mover_rating, opponent_rating) ==
    LET rating_group == select(mover_rating, opponent_rating)
        sub_entry == [SubEntryDefault("lichess") EXCEPT ![speed][rating_group] =
                        [stats |-> StatsNewSingle(outcome, mover_rating),
                         games |-> <<(<<0, game_id>>)>>]]
    IN  [sub_entries |-> [u \in {uci} |-> sub_entry], max_game_idx |-> Some(0)]

RECURSIVE LichessReadSections(_, _, _, _)
RECURSIVE LichessReadGroups(_, _, _, _, _)
\* outer loop of extend_from_reader: one uci section per iteration
LichessReadSections(e, b, i, base_game_idx) ==
    LET r == ReadUci(b, i) IN
    IF r.err = "UnexpectedEof" THEN [err |-> "none", entry |-> e]
    ELSE IF r.err # "none" THEN [err |-> r.err, entry |-> e]
    ELSE LichessReadGroups(
            [e EXCEPT !.sub_entries = OrDefault("lichess", @, r.val)],
            b, r.pos, base_game_idx, r.val)
\* inner loop of extend_from_reader: one header per iteration
LichessReadGroups(e, b, i, base_game_idx, uci) ==
    LET h == LichessHeaderRead(b, i) IN
    IF h.err = "UnexpectedEof" THEN [err |-> "none", entry |-> e]
    ELSE IF h.err # "none" THEN [err |-> h.err, entry |-> e]
    ELSE IF h.val.tag = "End" THEN LichessReadSections(e, b, h.pos, base_game_idx)
    ELSE
    LET s == StatsRead(b, h.pos) IN
    IF s.err # "none" THEN [err |-> s.err, entry |-> e]
    ELSE
    LET gs == ReadGames(b, s.pos, base_game_idx, h.val.num_games, e.max_game_idx, <<>>)
    IN  IF gs.err # "none"
        THEN [err |-> gs.err, entry |-> [e EXCEPT !.max_game_idx = gs.max_game_idx]]
        ELSE LichessReadGroups(
                [e EXCEPT !.max_game_idx = gs.max_game_idx,
                          !.sub_entries[uci][h.val.speed][h.val.part] =
                              GroupAdd(@, [stats |-> s.val, games |-> gs.games])],
                b, gs.pos, base_game_idx, uci)

LichessExtendFromReader(e, b) ==
    LET base_game_idx == IF e.max_game_idx = None THEN 0 ELSE e.max_game_idx[1] + 1
    IN  LichessReadSections(e, b, 1, base_game_idx)

LichessWriteGroup(speed, rating_group, group) ==
    IF group.games # <<>> \/ ~StatsIsEmpty(group.stats)
    THEN LichessHeaderWrite(
            HeaderGroup(speed, rating_group, Min(Len(group.games), MAX_LICHESS_GAMES)))
         \o StatsWrite(group.stats)
         \o WriteGames(group.games, MAX_LICHESS_GAMES)
    ELSE <<>>

\* order: the iteration order of the sub_entries hash map (any ordering of its keys)
LichessWrite(e, order) ==
    Flatten([i \in 1..Len(order) |->
        (IF i > 1 THEN LichessHeaderWrite(HeaderEnd) ELSE <<>>)
        \o WriteUci(order[i])
        \o Flatten([si \in 1..6 |-> Flatten([ri \in 1..8 |->
              LichessWriteGroup(SpeedALL[si], RatingGroupALL[ri],
                  e.sub_entries[order[i]][SpeedALL[si]][RatingGroupALL[ri]])])])])

(***************************************************************************)
(* Player entry codec (model/player.rs)                                    *)
(***************************************************************************)
PlayerHeaderRead(b, i) ==
    LET r == ReadU8(b, i) IN
    IF r.err # "none" THEN r ELSE
    LET n == r.val IN
    IF n % 8 = 0 THEN Got(HeaderEnd, r.pos)
    ELSE IF n % 8 = 7 THEN Fail("InvalidData")
    ELSE Got(HeaderGroup(SpeedALL[n % 8],
                         IF (n \div 8) % 2 = 1 THEN "Rated" ELSE "Casual",
                         n \div 16), r.pos)

\* Variant of the header write that shifts the game count by three bits.
PlayerHeaderWriteShift3(h) ==
    IF h.tag = "End" THEN <<0>>
    ELSE <<(IndexOf(SpeedALL, h.speed)
             + (IF h.part = "Rated" THEN 1 ELSE 0) * 8
             + (((h.num_games % 256) * 8) % 256)) % 256>>

PlayerHeaderWrite(h) ==
    IF h.tag = "End" THEN <<0>>
    ELSE <<IndexOf(SpeedALL, h.speed)
             + (IF h.part = "Rated" THEN 1 ELSE 0) * 8
             + (((h.num_games % 256) * 16) % 256)>>

PlayerNewSingle(uci, speed, mode, game_id, outcome, opponent_rating) ==
    LET sub_entry == [SubEntryDefault("player") EXCEPT ![speed][mode] =
                        [stats |-> StatsNewSingle(outcome, opponent_rating),
                         games |-> <<(<<0, game_id>>)>>]]
    IN  [sub_entries |-> [u \in {uci} |-> sub_entry], max_game_idx |-> Some(0)]

RECURSIVE PlayerReadSections(_, _, _, _)
RECURSIVE PlayerReadGroups(_, _, _, _, _)
PlayerReadSections(e, b, i, base_game_idx) ==
    LET r == ReadUci(b, i) IN
    IF r.err = "UnexpectedEof" THEN [err |-> "none", entry |-> e]
    ELSE IF r.err # "none" THEN [err |-> r.err, entry |-> e]
    ELSE PlayerReadGroups(
            [e EXCEPT !.sub_entries = OrDefault("player", @, r.val)],
            b, r.pos, base_game_idx, r.val)
PlayerReadGroups(e, b, i, base_game_idx, uci) ==
    LET h == PlayerHeaderRead(b, i) IN
    IF h.err = "UnexpectedEof" THEN [err |-> "none", entry |-> e]
    ELSE IF h.err # "none" THEN [err |-> h.err, entry |-> e]
    ELSE IF h.val.tag = "End" THEN PlayerReadSections(e, b, h.pos, base_game_idx)
    ELSE
    LET s == StatsRead(b, h.pos) IN
    IF s.err # "none" THEN [err |-> s.err, entry |-> e]
    ELSE
    LET gs == ReadGames(b, s.pos, base_game_idx, h.val.num_games, e.max_game_idx, <<>>)
    IN  IF gs.err # "none"
        THEN [err |-> gs.err, entry |-> [e EXCEPT !.max_game_idx = gs.max_game_idx]]
        ELSE PlayerReadGroups(
                [e EXCEPT !.max_game_idx = gs.max_game_idx,
                          !.sub_entries[uci][h.val.speed][h.val.part] =
                              GroupAdd(@, [stats |-> s.val, games |-> gs.games])],
                b, gs.pos, base_game_idx, uci)

PlayerExtendFromReader(e, b) ==
    LET base_game_idx == IF e.max_game_idx = None THEN 0 ELSE e.max_game_idx[1] + 1
    IN  PlayerReadSections(e, b, 1, base_game_idx)

PlayerWriteGroup(speed, mode, group) ==
    IF group.games # <<>> \/ ~StatsIsEmpty(group.stats)
    THEN PlayerHeaderWrite(
            HeaderGroup(speed, mode, Min(Len(group.games), MAX_PLAYER_GAMES)))
         \o StatsWrite(group.stats)
         \o WriteGames(group.games, MAX_PLAYER_GAMES)
    ELSE <<>>

PlayerWrite(e, order) ==
    Flatten([i \in 1..Len(order) |->
        (IF i > 1 THEN PlayerHeaderWrite(HeaderEnd) ELSE <<>>)
        \o WriteUci(order[i])
        \o Flatten([si \in 1..6 |-> Flatten([mi \in 1..2 |->
              PlayerWriteGroup(SpeedALL[si], ModeALL[mi],
                  e.sub_entries[order[i]][SpeedALL[si]][ModeALL[mi]])])])])

\* Dispatch on the codec of the entry under construction.
ExtendFromReader(k, e, b) ==
    IF k = "lichess" THEN LichessExtendFromReader(e, b) ELSE PlayerExtendFromReader(e, b)
Write(k, e, order) ==
    IF k = "lichess" THEN LichessWrite(e, order) ELSE PlayerWrite(e, order)

(***************************************************************************)
(* The codec as a state machine: single-game increments are created by     *)
(* new_single, blobs are merged with one extend_from_reader call per blob, *)
(* and entries are re-encoded (write, then read into an empty entry), as   *)
(* in test_lichess_entry and test_merge_player.                            *)
(***************************************************************************)
RECURSIVE SumSeq(_)
SumSeq(q) == IF q = <<>> THEN 0 ELSE Head(q) + SumSeq(Tail(q))

Cells(k) == Speeds \X Parts(k)
GroupAt(e, uci, cell) == e.sub_entries[uci][cell[1]][cell[2]]
UcisOf(e) == DOMAIN e.sub_entries

\* number of games an entry accounts for
EntryTotal(k, e) ==
    LET ord == CHOOSE o \in Orderings(UcisOf(e)) : TRUE
    IN  SumSeq([i \in 1..Len(ord) |->
            SumSeq([si \in 1..6 |->
                SumSeq([pi \in 1..Len(PartALL(k)) |->
                    StatsTotal(e.sub_entries[ord[i]][SpeedALL[si]][PartALL(k)[pi]].stats)])])])

\* The games whose single-game increments the model draws from: one increment
\* per game at this key (the importer issues one merge per key and game).
LichessSamples ==
    { [id |-> GameIdOf(0), uci |-> G1F3, speed |-> "Blitz", outcome |-> "draw",
       mover |-> 2000, opponent |-> 2100],
      [id |-> GameIdOf(1), uci |-> D2D4, speed |-> "Blitz", outcome |-> "white",
       mover |-> 2000, opponent |-> 2100],
      [id |-> GameIdOf(2), uci |-> G1F3, speed |-> "Rapid", outcome |-> "black",
       mover |-> 1800, opponent |-> 2150] }
PlayerSamples ==
    { [id |-> GameIdOf(0), uci |-> E2E4, speed |-> "Bullet", mode |-> "Rated",
       outcome |-> "white", opponent |-> 1600],
      [id |-> GameIdOf(1), uci |-> E2E4, speed |-> "Bullet", mode |-> "Rated",
       outcome |-> "black", opponent |-> 1800],
      [id |-> GameIdOf(2), uci |-> D2D4, speed |-> "Blitz", mode |-> "Casual",
       outcome |-> "draw", opponent |-> 1700] }

NoOp == [op |-> "none"]

InitCodec ==
    /\ NoLoader /\ NoStatus
    /\ kind \in {"lichess", "player"}
    /\ entry = EntryDefault
    /\ operand = EntryDefault
    /\ created = {}
    /\ last = NoOp
    /\ games_db = <<>> /\ entries_db = <<>> /\ pc = <<>> /\ req = <<>>
    /\ ret = <<>> /\ hist = <<>> /\ ncalls = 0
    /\ sel = <<>>

\* LichessEntry::new_single: the ingester creates a single-game increment.
LichessCreateSingle(g) ==
    /\ kind = "lichess"
    /\ g.id \notin created
    /\ operand' = LichessNewSingle(g.uci, g.speed, g.id, g.outcome, g.mover, g.opponent)
    /\ created' = created \cup {g.id}
    /\ last' = [op |-> "new_single"]
    /\ UNCHANGED <<kind, entry, importVars, sel, loaderVars, statusVars>>

\* PlayerEntry::new_single
PlayerCreateSingle(g) ==
    /\ kind = "player"
    /\ g.id \notin created
    /\ operand' = PlayerNewSingle(g.uci, g.speed, g.mode, g.id, g.outcome, g.opponent)
    /\ created' = created \cup {g.id}
    /\ last' = [op |-> "new_single"]
    /\ UNCHANGED <<kind, entry, importVars, sel, loaderVars, statusVars>>

\* entry.extend_from_reader(write(operand)): one call for the operand's blob.
MergeOperand(order) ==
    /\ UcisOf(operand) # {}
    /\ EntryTotal(kind, entry) + EntryTotal(kind, operand) <= MaxTotal
    /\ LET r == ExtendFromReader(kind, entry, Write(kind, operand, order))
       IN  /\ entry' = r.entry
           /\ last' = [op |-> "merge", err |-> r.err]
    /\ UNCHANGED <<kind, operand, created, importVars, sel, loaderVars, statusVars>>

\* operand.extend_from_reader(write(entry)): the operand becomes a merged entry.
MergeIntoOperand(order) ==
    /\ UcisOf(entry) # {}
    /\ UcisOf(operand) # {}
    /\ EntryTotal(kind, entry) + EntryTotal(kind, operand) <= MaxOperandTotal
    /\ LET r == ExtendFromReader(kind, operand, Write(kind, entry, order))
       IN  /\ operand' = r.entry
           /\ last' = [op |-> "merge_into_operand", err |-> r.err]
    /\ UNCHANGED <<kind, entry, created, importVars, sel, loaderVars, statusVars>>

\* Roundtrip of the combined entry: write it, read the bytes into an empty entry.
Reencode(order) ==
    /\ UcisOf(entry) # {}
    /\ last.op # "reencode"
    /\ LET r == ExtendFromReader(kind, EntryDefault, Write(kind, entry, order))
       IN  /\ entry' = r.entry
           /\ last' = [op |-> "reencode", err |-> r.err, before |-> entry]
    /\ UNCHANGED <<kind, operand, created, importVars, sel, loaderVars, statusVars>>

\* Read the blobs of entry (A) and operand (B) into an empty entry: once as two
\* successive extend_from_reader calls, once as one call over the concatenation.
ReadBlobs(orderA, orderB) ==
    /\ UcisOf(entry) # {}
    /\ UcisOf(operand) # {}
    /\ last.op # "read_blobs"
    /\ LET wa == Write(kind, entry, orderA)
           wb == Write(kind, operand, orderB)
           a == ExtendFromReader(kind, EntryDefault, wa)
           b == ExtendFromReader(kind, EntryDefault, wb)
           ab == ExtendFromReader(kind, a.entry, wb)
       IN  last' = [op |-> "read_blobs", a |-> a, b |-> b, two_calls |-> ab,
                    one_call |-> ExtendFromReader(kind, EntryDefault, wa \o wb)]
    /\ UNCHANGED <<kind, entry, operand, created, importVars, sel, loaderVars, statusVars>>

NextCodec ==
    \/ \E g \in LichessSamples : LichessCreateSingle(g)
    \/ \E g \in PlayerSamples : PlayerCreateSingle(g)
    \/ \E order \in Orderings(UcisOf(operand)) : MergeOperand(order)
    \/ \E order \in Orderings(UcisOf(entry)) : MergeIntoOperand(order)
    \/ \E order \in Orderings(UcisOf(entry)) : Reencode(order)
    \/ \E orderA \in Orderings(UcisOf(entry)), orderB \in Orderings(UcisOf(operand)) :
            ReadBlobs(orderA, orderB)

(***************************************************************************)
(* Properties of the codec                                                 *)
(***************************************************************************)
GamesOf(e, uci, cell) == GroupAt(e, uci, cell).games
IdxSet(games) == {games[i][1] : i \in 1..Len(games)}
MaxGames(k) == IF k = "lichess" THEN MAX_LICHESS_GAMES ELSE MAX_PLAYER_GAMES

\* The logical aggregate sum of two decoded entries: stats add up, b's games follow
\* a's with their indices shifted by a's max_game_idx + 1.
ShiftOf(a) == IF a.max_game_idx = None THEN 0 ELSE a.max_game_idx[1] + 1
GroupOrDefault(e, u, s, p) ==
    IF u \in UcisOf(e) THEN e.sub_entries[u][s][p] ELSE GroupDefault
Plus(k, a, b) ==
    [sub_entries |->
        [u \in UcisOf(a) \cup UcisOf(b) |-> [s \in Speeds |-> [p \in Parts(k) |->
            LET ga == GroupOrDefault(a, u, s, p)
                gb == GroupOrDefault(b, u, s, p)
            IN  [stats |-> StatsAdd(ga.stats, gb.stats),
                 games |-> ga.games \o
                    [i \in 1..Len(gb.games) |->
                        <<gb.games[i][1] + ShiftOf(a), gb.games[i][2]>>]]]]],
     max_game_idx |->
        IF b.max_game_idx = None THEN a.max_game_idx
        ELSE Some(ShiftOf(a) + b.max_game_idx[1])]

\* An entry with every game list cut down to its last n elements.
LastN(games, n) ==
    IF Len(games) > n THEN SubSeq(games, Len(games) - n + 1, Len(games)) ELSE games
Truncated(k, e) ==
    [sub_entries |->
        [u \in UcisOf(e) |-> [s \in Speeds |-> [p \in Parts(k) |->
            [stats |-> e.sub_entries[u][s][p].stats,
             games |-> LastN(e.sub_entries[u][s][p].games, MaxGames(k))]]]],
     max_game_idx |-> e.max_game_idx]

C3_WriteKeepsNewest ==
    last.op = "reencode" =>
        /\ last.err = "none"
        /\ \A u \in UcisOf(last.before), cell \in Cells(kind) :
              LET before == GamesOf(last.before, u, cell)
                  after == GamesOf(entry, u, cell)
                  B == {before[i] : i \in 1..Len(before)}
              IN  /\ Len(after) <= MaxGames(kind)
                  /\ Len(after) = Min(Len(before), MaxGames(kind))
                  /\ {after[i] : i \in 1..Len(after)} =
                        {g \in B : Cardinality({h \in B : h[1] > g[1]}) < MaxGames(kind)}

C3_Witness ==
    /\ last.op = "reencode"
    /\ \E u \in UcisOf(last.before), cell \in Cells(kind) :
          /\ IdxSet(GamesOf(last.before, u, cell)) = 0..11
          /\ Len(GamesOf(last.before, u, cell)) = 12
          /\ IdxSet(GamesOf(entry, u, cell)) = 4..11

\* C4: after any sequence of merges (one extend_from_reader call per blob) and
\* re-encodings, no two games of one partition have the same game index.
UniqueIdx(e) ==
    \A u \in UcisOf(e), cell \in Cells(kind) :
        Cardinality(IdxSet(GamesOf(e, u, cell))) = Len(GamesOf(e, u, cell))
C4_UniqueGameIdx == UniqueIdx(entry) /\ UniqueIdx(operand)

C4_Witness ==
    /\ last.op = "merge"
    /\ EntryTotal(kind, operand) >= 2
    /\ entry.max_game_idx # None /\ entry.max_game_idx[1] >= 9
    /\ \E u \in UcisOf(entry), cell \in Cells(kind) : Len(GamesOf(entry, u, cell)) >= 4

\* C5: writing an entry and reading the bytes into an empty entry gives back the
\* entry: same moves, stats and max_game_idx, and per partition the same
\* (game index, game id) pairs, of which only the last 8 are kept.
C5_RoundTrip ==
    last.op = "reencode" =>
        /\ last.err = "none"
        /\ entry = Truncated(kind, last.before)

C5_Witness ==
    /\ last.op = "reencode"
    /\ Cardinality(UcisOf(entry)) >= 2
    /\ entry # last.before
    /\ \E u \in UcisOf(entry), cell \in Cells(kind) :
          Len(GamesOf(entry, u, cell)) \in 3..7

SpecCodec == InitCodec /\ [][NextCodec]_vars


(***************************************************************************)
(* The importers (importer.rs).  The chess library is abstracted: a        *)
(* position is a number (its Zobrist hash), White is to move in even       *)
(* positions, "f" leads from p to p + 1, "r" leads from p back to p - 3    *)
(* (so that positions repeat), and any other move is illegal.              *)
(***************************************************************************)
Tasks == {1, 2}
Ids == {"X", "Y"}

YearMinMasters == 1952
YearMaxMasters == 2021

Turn(pos) == IF pos % 2 = 0 THEN "white" ELSE "black"
Other(color) == IF color = "white" THEN "black" ELSE "white"
Legal(pos, m) == m = "f" \/ (m = "r" /\ pos >= 3)
Play(pos, m) == IF m = "f" THEN pos + 1 ELSE pos - 3
UciOf(pos, m) == <<pos, m>>
Key(corpus, pos, bucket) == [corpus |-> corpus, zobrist |-> pos, bucket |-> bucket]
\* Variant of the map insert that keeps the value already stored for the key.
InsertIfAbsent(map, key, val) == map @@ (key :> val)

Insert(map, key, val) == (key :> val) @@ map

Line(n) == [i \in 1..n |-> "f"]
Loop == <<"f", "f", "f", "r", "f", "f", "f", "f">>

\* The request bodies the model draws from.
MastersShapes ==
    { [white |-> 2300, black |-> 2300, year |-> 2000, moves |-> Line(2)],
      [white |-> 2300, black |-> 2300, year |-> 2000, moves |-> Line(MaxMoves)],
      [white |-> 2300, black |-> 2300, year |-> 2000, moves |-> Loop],
      [white |-> 2100, black |-> 2100, year |-> 2000, moves |-> Line(2)],
      [white |-> 2300, black |-> 2300, year |-> 1900, moves |-> Line(2)],
      [white |-> 2300, black |-> 2300, year |-> 2000, moves |-> <<"f", "x">>],
      [white |-> 2199, black |-> 2201, year |-> 2000, moves |-> Line(2)],
      [white |-> 33000, black |-> 33000, year |-> YearMinMasters, moves |-> Line(2)],
      [white |-> 2300, black |-> 2300, year |-> YearMaxMasters + 1, moves |-> Line(2)],
      [white |-> 2300, black |-> 2300, year |-> 2000, moves |-> <<"f", "f", "f", "r">>] }
LichessGameShapes ==
    { [speed |-> "Blitz", month |-> Some(24000), fen |-> "none", moves |-> Line(2)],
      [speed |-> "Rapid", month |-> Some(24000), fen |-> "none", moves |-> Line(MaxMoves)],
      [speed |-> "Blitz", month |-> Some(24000), fen |-> "valid", moves |-> Loop],
      [speed |-> "Bullet", month |-> None, fen |-> "invalid", moves |-> <<"x">>],
      [speed |-> "UltraBullet", month |-> Some(24000), fen |-> "none", moves |-> Line(2)],
      [speed |-> "Blitz", month |-> None, fen |-> "none", moves |-> Line(2)],
      [speed |-> "Blitz", month |-> Some(24000), fen |-> "invalid", moves |-> Line(2)],
      [speed |-> "Blitz", month |-> Some(24000), fen |-> "none", moves |-> <<"f", "x">>] }

NoResult == [res |-> "none", id |-> ""]
Result(res, id) == [res |-> res, id |-> id]
\* reads counts the point reads of the store made by the call so far
NoHist == [calls |-> 0, commits |-> 0, merges |-> 0, reads |-> 0, present |-> FALSE]

InitImport ==
    /\ NoLoader /\ NoStatus
    /\ kind \in {"masters", "lichess"}
    /\ games_db \in {<<>>} \cup
          (IF kind = "lichess"
           THEN {"Y" :> [corpus |-> "lichess", indexed_lichess |-> FALSE]}
           ELSE {})
    /\ entries_db = <<>>
    /\ pc = [t \in Tasks |-> "idle"]
    /\ req = [t \in Tasks |-> <<>>]
    /\ ret = [t \in Tasks |-> NoResult]
    /\ hist = [t \in Tasks |-> NoHist]
    /\ ncalls = 0
    /\ sel = <<>>
    /\ entry = EntryDefault /\ operand = EntryDefault /\ created = {} /\ last = NoOp

\* Database (db.rs): point reads, and a write batch that commits atomically.
HasGame(id) == id \in DOMAIN games_db
Has(key) == key \in DOMAIN entries_db
\* Variant of the duplicate check that never finds the game indexed.
GameNeverIndexed(id) == FALSE

GameIndexedLichess(id) ==
    IF id \in DOMAIN games_db THEN games_db[id].indexed_lichess ELSE FALSE
BatchCommit(id, info, merges) ==
    /\ games_db' = Insert(games_db, id, info)
    /\ entries_db' =
          [k \in DOMAIN entries_db \cup DOMAIN merges |->
              IF k \in DOMAIN merges
              THEN (IF k \in DOMAIN entries_db THEN entries_db[k] ELSE <<>>)
                       \o <<merges[k]>>
              ELSE entries_db[k]]

\* Returning from import(): the task is idle again and holds the result.
Return(t, result) ==
    /\ pc' = [pc EXCEPT ![t] = "idle"]
    /\ ret' = [ret EXCEPT ![t] = result]

(***************************************************************************)
(* MastersImporter::import                                                 *)
(***************************************************************************)
\* the replay loop: every move contributes its key
RECURSIVE MastersReplay(_, _, _, _, _, _)
MastersReplay(moves, i, pos, year, without_loops, final_key) ==
    IF i > Len(moves)
    THEN [err |-> "none", without_loops |-> without_loops, final_key |-> final_key]
    ELSE LET key == Key("masters", pos, year) IN
         IF ~Legal(pos, moves[i])
         THEN [err |-> "MoveIllegal", without_loops |-> without_loops,
               final_key |-> Some(key)]
         ELSE MastersReplay(moves, i + 1, Play(pos, moves[i]), year,
                            Insert(without_loops, key,
                                   [uci |-> UciOf(pos, moves[i]), turn |-> Turn(pos)]),
                            Some(key))

MastersWithoutLoops(body) == MastersReplay(body.moves, 1, 0, body.year, <<>>, None)

\* Variant of the admission check that adds the two ratings in 16 bits and halves the sum.
MastersRejectedWrappingSum(body) ==
    \/ U16(body.white + body.black) \div 2 < 2200
    \/ body.year < YearMinMasters
    \/ YearMaxMasters < body.year

MastersRejected(body) ==
    \/ (body.white \div 2) + (body.black \div 2) < 2200
    \/ body.year < YearMinMasters
    \/ YearMaxMasters < body.year

MastersMerges(body) ==
    LET wl == MastersWithoutLoops(body).without_loops IN
    [k \in DOMAIN wl |->
        [uci |-> wl[k].uci, id |-> body.id, outcome |-> body.winner,
         mover_rating |-> IF wl[k].turn = "white" THEN body.white ELSE body.black,
         opponent_rating |-> IF wl[k].turn = "white" THEN body.black ELSE body.white]]

\* Variant of the first part of the import without the has_game check.
MastersImportBeginNoHasGame(t, body) ==
    /\ kind = "masters"
    /\ pc[t] = "idle"
    /\ ncalls < MaxCalls
    /\ ncalls' = ncalls + 1
    /\ req' = [req EXCEPT ![t] = body]
    /\ hist' = [hist EXCEPT ![t] = [NoHist EXCEPT !.calls = hist[t].calls + 1,
                                                  !.present = HasGame(body.id)]]
    /\ IF MastersRejected(body)
       THEN Return(t, Result("RejectedImport", body.id))
       ELSE IF MastersWithoutLoops(body).err # "none"
       THEN Return(t, Result("MoveIllegal", body.id))
       ELSE /\ pc' = [pc EXCEPT ![t] = "masters_final_key"]
            /\ ret' = [ret EXCEPT ![t] = NoResult]
    /\ UNCHANGED <<games_db, entries_db, codecVars, sel, loaderVars, statusVars>>

\* Lines 42-73: admission, self.mutex.lock() (tokio's lock() only builds a future;
\* it is never awaited, so nothing is acquired), has_game, replay of the moves.
MastersImportBegin(t, body) ==
    /\ kind = "masters"
    /\ pc[t] = "idle"
    /\ ncalls < MaxCalls
    /\ ncalls' = ncalls + 1
    /\ req' = [req EXCEPT ![t] = body]
    /\ hist' = [hist EXCEPT ![t] = [NoHist EXCEPT !.calls = hist[t].calls + 1,
                                                  !.reads = IF MastersRejected(body)
                                                            THEN 0 ELSE 1,
                                                  !.present = HasGame(body.id)]]
    /\ IF MastersRejected(body)
       THEN Return(t, Result("RejectedImport", body.id))
       ELSE IF HasGame(body.id)
       THEN Return(t, Result("DuplicateGame", body.id))
       ELSE IF MastersWithoutLoops(body).err # "none"
       THEN Return(t, Result("MoveIllegal", body.id))
       ELSE /\ pc' = [pc EXCEPT ![t] = "masters_final_key"]
            /\ ret' = [ret EXCEPT ![t] = NoResult]
    /\ UNCHANGED <<games_db, entries_db, codecVars, sel, loaderVars, statusVars>>

\* Variant of the final-position check that has already put the game metadata.
MastersImportCheckFinalKeyAfterPut(t) ==
    /\ pc[t] = "masters_final_key"
    /\ games_db' = Insert(games_db, req[t].id,
                          [corpus |-> "masters", indexed_lichess |-> FALSE])
    /\ LET final_key == MastersWithoutLoops(req[t]).final_key IN
       IF final_key # None /\ Has(final_key[1])
       THEN Return(t, Result("DuplicateGame", req[t].id))
       ELSE /\ pc' = [pc EXCEPT ![t] = "masters_commit"]
            /\ ret' = ret
    /\ UNCHANGED <<entries_db, req, hist, ncalls, codecVars, sel, loaderVars, statusVars>>

\* Variant of the final-position check that never finds the key.
MastersImportSkipFinalKey(t) ==
    /\ pc[t] = "masters_final_key"
    /\ pc' = [pc EXCEPT ![t] = "masters_commit"]
    /\ ret' = ret
    /\ UNCHANGED <<games_db, entries_db, req, hist, ncalls, codecVars, sel, loaderVars, statusVars>>

\* Lines 75-79: the final-position check.
MastersImportCheckFinalKey(t) ==
    /\ pc[t] = "masters_final_key"
    /\ LET final_key == MastersWithoutLoops(req[t]).final_key IN
       IF final_key # None /\ Has(final_key[1])
       THEN Return(t, Result("DuplicateGame", req[t].id))
       ELSE /\ pc' = [pc EXCEPT ![t] = "masters_commit"]
            /\ ret' = ret
    /\ hist' = [hist EXCEPT ![t].reads =
                   @ + (IF MastersWithoutLoops(req[t]).final_key # None THEN 1 ELSE 0)]
    /\ UNCHANGED <<games_db, entries_db, req, ncalls, codecVars, sel, loaderVars, statusVars>>

\* Lines 81-97: one batch with put_game and one merge per key.
MastersImportCommit(t) ==
    /\ pc[t] = "masters_commit"
    /\ BatchCommit(req[t].id, [corpus |-> "masters", indexed_lichess |-> FALSE],
                   MastersMerges(req[t]))
    /\ hist' = [hist EXCEPT ![t].commits = @ + 1,
                            ![t].merges = Cardinality(DOMAIN MastersMerges(req[t]))]
    /\ Return(t, Result("Ok", req[t].id))
    /\ UNCHANGED <<req, ncalls, codecVars, sel, loaderVars, statusVars>>

(***************************************************************************)
(* LichessImporter::import                                                 *)
(***************************************************************************)
StartPos(fen) == IF fen = "valid" THEN 2 ELSE 0

\* the replay loop: stops at ply MAX_PLIES (ply counts from 0)
RECURSIVE LichessReplay(_, _, _, _, _)
LichessReplay(moves, i, pos, month, without_loops) ==
    IF i > Len(moves) \/ i - 1 >= MAX_PLIES
    THEN [err |-> "none", without_loops |-> without_loops]
    ELSE IF ~Legal(pos, moves[i])
         THEN [err |-> "MoveIllegal", without_loops |-> without_loops]
         ELSE LichessReplay(moves, i + 1, Play(pos, moves[i]), month,
                            Insert(without_loops, Key("lichess", pos, month),
                                   [uci |-> UciOf(pos, moves[i]), turn |-> Turn(pos)]))

LichessWithoutLoops(game) ==
    LichessReplay(game.moves, 1, StartPos(game.fen), game.month[1], <<>>)

LichessMerges(game) ==
    LET wl == LichessWithoutLoops(game).without_loops IN
    [k \in DOMAIN wl |->
        [uci |-> wl[k].uci, speed |-> game.speed, id |-> game.id,
         outcome |-> game.winner,
         mover_rating |-> IF wl[k].turn = "white" THEN game.white ELSE game.black,
         opponent_rating |-> IF wl[k].turn = "white" THEN game.black ELSE game.white]]

\* Variant of the first part of the import without the speed check.
LichessImportBeginAllSpeeds(t, game) ==
    /\ kind = "lichess"
    /\ pc[t] = "idle"
    /\ ncalls < MaxCalls
    /\ ncalls' = ncalls + 1
    /\ req' = [req EXCEPT ![t] = game]
    /\ hist' = [hist EXCEPT ![t] = [NoHist EXCEPT !.calls = hist[t].calls + 1,
                                                  !.reads = 1,
                                                  !.present = GameIndexedLichess(game.id)]]
    /\ IF GameIndexedLichess(game.id)
       THEN Return(t, Result("Ok", game.id))
       ELSE IF game.month = None
       THEN Return(t, Result("RejectedImport", game.id))
       ELSE IF game.fen = "invalid"
       THEN Return(t, Result("PositionError", game.id))
       ELSE IF LichessWithoutLoops(game).err # "none"
       THEN Return(t, Result("MoveIllegal", game.id))
       ELSE /\ pc' = [pc EXCEPT ![t] = "lichess_commit"]
            /\ ret' = [ret EXCEPT ![t] = NoResult]
    /\ UNCHANGED <<games_db, entries_db, codecVars, sel, loaderVars, statusVars>>

\* Lines 134-189: self.mutex.lock() (a future that is never awaited), the
\* indexed_lichess check, the speed and date checks, the starting position and
\* the replay of the moves.
LichessImportBegin(t, game) ==
    /\ kind = "lichess"
    /\ pc[t] = "idle"
    /\ ncalls < MaxCalls
    /\ ncalls' = ncalls + 1
    /\ req' = [req EXCEPT ![t] = game]
    /\ hist' = [hist EXCEPT ![t] = [NoHist EXCEPT !.calls = hist[t].calls + 1,
                                                  !.reads = 1,
                                                  !.present = GameIndexedLichess(game.id)]]
    /\ IF GameIndexedLichess(game.id)
       THEN Return(t, Result("Ok", game.id))
       ELSE IF game.speed = "Bullet" \/ game.speed = "UltraBullet"
       THEN Return(t, Result("Ok", game.id))
       ELSE IF game.month = None
       THEN Return(t, Result("RejectedImport", game.id))
       ELSE IF game.fen = "invalid"
       THEN Return(t, Result("PositionError", game.id))
       ELSE IF LichessWithoutLoops(game).err # "none"
       THEN Return(t, Result("MoveIllegal", game.id))
       ELSE /\ pc' = [pc EXCEPT ![t] = "lichess_commit"]
            /\ ret' = [ret EXCEPT ![t] = NoResult]
    /\ UNCHANGED <<games_db, entries_db, codecVars, sel, loaderVars, statusVars>>

\* Lines 191-219: one batch with merge_game and one merge_lichess per key.
LichessImportCommit(t) ==
    /\ pc[t] = "lichess_commit"
    /\ BatchCommit(req[t].id, [corpus |-> "lichess", indexed_lichess |-> TRUE],
                   LichessMerges(req[t]))
    /\ hist' = [hist EXCEPT ![t].commits = @ + 1,
                            ![t].merges = Cardinality(DOMAIN LichessMerges(req[t]))]
    /\ Return(t, Result("Ok", req[t].id))
    /\ UNCHANGED <<req, ncalls, codecVars, sel, loaderVars, statusVars>>

MastersBodies ==
    {[id |-> id, white |-> sh.white, black |-> sh.black, year |-> sh.year,
      winner |-> "white", moves |-> sh.moves] : id \in Ids, sh \in MastersShapes}
LichessGames ==
    {[id |-> id, speed |-> sh.speed, month |-> sh.month, fen |-> sh.fen,
      white |-> 2000, black |-> 2100, winner |-> "draw", moves |-> sh.moves] :
        id \in Ids, sh \in LichessGameShapes}

\* Import calls run on the worker threads of a multi-threaded runtime.
NextImport ==
    \/ \E t \in Tasks, body \in MastersBodies : MastersImportBegin(t, body)
    \/ \E t \in Tasks : MastersImportCheckFinalKey(t)
    \/ \E t \in Tasks : MastersImportCommit(t)
    \/ \E t \in Tasks, game \in LichessGames : LichessImportBegin(t, game)
    \/ \E t \in Tasks : LichessImportCommit(t)

SpecImport == InitImport /\ [][NextImport]_vars

\* Import calls made one after another: a single task.
NextImportSeq ==
    \/ \E body \in MastersBodies : MastersImportBegin(1, body)
    \/ MastersImportCheckFinalKey(1)
    \/ MastersImportCommit(1)
    \/ \E game \in LichessGames : LichessImportBegin(1, game)
    \/ LichessImportCommit(1)

SpecImportSeq == InitImport /\ [][NextImportSeq]_vars

(***************************************************************************)
(* Properties of the importers                                             *)
(***************************************************************************)
Begins(t) == hist'[t].calls = hist[t].calls + 1
Finishes(t) == pc'[t] = "idle" /\ (pc[t] # "idle" \/ Begins(t))
StoreUnchanged == games_db' = games_db /\ entries_db' = entries_db
IsError(r) == r.res \in {"RejectedImport", "DuplicateGame", "MoveIllegal", "PositionError"}
OperandsAt(db, key) == IF key \in DOMAIN db THEN db[key] ELSE <<>>

\* The plies an import replays, the position before each, and its key.
RECURSIVE PositionsBefore(_, _, _)
PositionsBefore(moves, i, pos) ==
    IF i > Len(moves) THEN <<>>
    ELSE <<pos>> \o PositionsBefore(moves, i + 1, Play(pos, moves[i]))
ReplayedPlies(g) ==
    IF g.corpus = "lichess" THEN 1..Min(Len(g.moves), MAX_PLIES) ELSE 1..Len(g.moves)
GameView(r) ==
    IF kind = "lichess"
    THEN [corpus |-> "lichess", bucket |-> r.month[1],
          positions |-> PositionsBefore(r.moves, 1, StartPos(r.fen)),
          moves |-> r.moves, id |-> r.id, white |-> r.white, black |-> r.black]
    ELSE [corpus |-> "masters", bucket |-> r.year,
          positions |-> PositionsBefore(r.moves, 1, 0),
          moves |-> r.moves, id |-> r.id, white |-> r.white, black |-> r.black]
KeyAtPly(g, i) == Key(g.corpus, g.positions[i], g.bucket)
VisitedKeys(g) == {KeyAtPly(g, i) : i \in ReplayedPlies(g)}
LastPlyAt(g, key) ==
    CHOOSE i \in ReplayedPlies(g) :
        /\ KeyAtPly(g, i) = key
        /\ \A j \in ReplayedPlies(g) : KeyAtPly(g, j) = key => j <= i

\* C2: the "check duplicate, then write" windows of two imports never overlap, so
\* a game's per-position increments are committed at most once per key.
C2_CommittedAtMostOnce ==
    \A key \in DOMAIN entries_db :
        \A i, j \in DOMAIN entries_db[key] :
            i # j => entries_db[key][i].id # entries_db[key][j].id

\* C6: an import that returns an error has issued no write; an import that
\* returns after indexing has written the game metadata and all of its
\* per-position merges in that one step; no other step writes.
C6_AllOrNothing ==
    [][ /\ \A t \in Tasks : Finishes(t) /\ IsError(ret'[t]) =>
              StoreUnchanged /\ hist'[t].commits = 0
        /\ \A t \in Tasks : Finishes(t) /\ hist'[t].commits > 0 =>
              /\ hist[t].commits = 0
              /\ ret'[t] = Result("Ok", req[t].id)
              /\ req[t].id \in DOMAIN games_db'
              /\ \A key \in VisitedKeys(GameView(req[t])) :
                    /\ Len(OperandsAt(entries_db', key)) =
                          Len(OperandsAt(entries_db, key)) + 1
                    /\ OperandsAt(entries_db', key)[Len(OperandsAt(entries_db', key))].id
                          = req[t].id
        /\ ~StoreUnchanged =>
              \E t \in Tasks : Finishes(t) /\ ret'[t].res = "Ok" /\ hist'[t].commits = 1
      ]_vars

C6_Witness ==
    \E t1, t2 \in Tasks :
        /\ ret[t1] = Result("Ok", "X") /\ hist[t1].commits = 1 /\ hist[t1].merges >= 4
        /\ ret[t2].res = "DuplicateGame" /\ ret[t2].id = "Y" /\ ~hist[t2].present
        /\ "Y" \notin DOMAIN games_db

\* C7: once a game's indexed_lichess flag is set, a later import of the same id
\* returns success and changes nothing; each game's increments are merged at most
\* once per key.
C7_LichessIdempotent ==
    [][ /\ \A t \in Tasks :
              kind = "lichess" /\ Begins(t) /\ GameIndexedLichess(req'[t].id) =>
                  /\ pc'[t] = "idle"
                  /\ ret'[t] = Result("Ok", req'[t].id)
                  /\ StoreUnchanged
        /\ \A key \in DOMAIN entries_db' :
              \A i, j \in DOMAIN entries_db'[key] :
                  i # j => entries_db'[key][i].id # entries_db'[key][j].id
      ]_vars

C7_Witness ==
    /\ kind = "lichess"
    /\ hist[1].calls = 3 /\ hist[1].present /\ hist[1].commits = 0
    /\ ret[1] = Result("Ok", "Y") /\ pc[1] = "idle"
    /\ req[1].speed = "Rapid" /\ req[1].month # None /\ Len(req[1].moves) = MaxMoves
    /\ \E key \in DOMAIN entries_db : entries_db[key][1].id = "Y"

\* C8 (as stated): after a masters game X has been imported, every later import
\* with id X returns DuplicateGame(X) and leaves the store unchanged.
C8_LaterImportIsDuplicate ==
    [][ \A t \in Tasks :
            kind = "masters" /\ Finishes(t) /\ hist'[t].present =>
                /\ ret'[t] = Result("DuplicateGame", req'[t].id)
                /\ StoreUnchanged
      ]_vars

\* C8 (amended): after a masters game X has been imported, every later import
\* with id X leaves the store unchanged and returns DuplicateGame(X) if it passes
\* the rating and year admission checks, RejectedImport(X) if it does not.
C8_LaterImportIsRefused ==
    [][ \A t \in Tasks :
            kind = "masters" /\ Finishes(t) /\ hist'[t].present =>
                /\ ret'[t] = Result(IF MastersRejected(req'[t]) THEN "RejectedImport"
                                    ELSE "DuplicateGame", req'[t].id)
                /\ StoreUnchanged
      ]_vars

C8_Witness ==
    /\ kind = "masters"
    /\ \E t1, t2 \in Tasks :
          /\ t1 # t2
          /\ ret[t1] = Result("Ok", "X") /\ Len(req[t1].moves) = 2
          /\ hist[t2].present /\ ret[t2] = Result("DuplicateGame", "X")
          /\ req[t2].moves = Loop

\* C9: in both importers one game issues at most MAX_PLIES entry merges.
C9_AtMostMaxPliesMerges == \A t \in Tasks : hist[t].merges <= MAX_PLIES

\* C10: a committed import appends exactly one increment to every distinct key
\* among the plies it replays, carrying the move and the side to move of the last
\* occurrence of that position, and touches no other key.
C10_OneMergePerKey ==
    [][ \A t \in Tasks : Finishes(t) /\ hist'[t].commits = 1 =>
            LET g == GameView(req[t]) IN
            /\ hist'[t].merges = Cardinality(VisitedKeys(g))
            /\ \A key \in DOMAIN entries_db' \ VisitedKeys(g) :
                  key \in DOMAIN entries_db /\ entries_db'[key] = entries_db[key]
            /\ \A key \in VisitedKeys(g) :
                  LET i == LastPlyAt(g, key)
                      pos == g.positions[i]
                      inc == OperandsAt(entries_db', key)[Len(OperandsAt(entries_db', key))]
                  IN  /\ OperandsAt(entries_db', key)
                            = Append(OperandsAt(entries_db, key), inc)
                      /\ inc.id = g.id
                      /\ inc.uci = UciOf(pos, g.moves[i])
                      /\ inc.mover_rating =
                            (IF Turn(pos) = "white" THEN g.white ELSE g.black)
                      /\ inc.opponent_rating =
                            (IF Turn(pos) = "white" THEN g.black ELSE g.white)
      ]_vars

C10_Witness ==
    \E t \in Tasks, key \in DOMAIN entries_db :
        /\ ret[t].res = "Ok" /\ hist[t].commits = 1 /\ req[t].moves = Loop
        /\ hist[t].merges = 4
        /\ key.zobrist = 3 + (IF kind = "lichess" THEN 2 ELSE 0)
        /\ Len(entries_db[key]) = 1
        /\ entries_db[key][Len(entries_db[key])].uci
              = UciOf(key.zobrist, "f")
        /\ entries_db[key][Len(entries_db[key])].mover_rating = req[t].black

(***************************************************************************)
(* RatingGroup::select as called by LichessEntry::new_single                *)
(***************************************************************************)
\* bound: how far around each threshold the sampled ratings reach
RatingSpread == 2

Thresholds == {1600, 1800, 2000, 2200, 2500, 2800}
SampleRatings ==
    {b + o + d : b \in Thresholds, o \in {-150, 0, 150}, d \in -RatingSpread..RatingSpread}
        \cup {0, 1, 149, 150, 151, 3400, 3500, 65385, 65386, 65535}

NoCall == <<>>

InitSelect ==
    /\ NoLoader /\ NoStatus
    /\ sel = NoCall
    /\ kind = "select"
    /\ entry = EntryDefault /\ operand = EntryDefault /\ created = {} /\ last = NoOp
    /\ games_db = <<>> /\ entries_db = <<>> /\ pc = <<>> /\ req = <<>>
    /\ ret = <<>> /\ hist = <<>> /\ ncalls = 0

\* One call RatingGroup::select(mover_rating, opponent_rating).
Select(mover_rating, opponent_rating) ==
    /\ kind = "select"
    /\ sel = NoCall
    /\ sel' = [fn |-> "select", mover |-> mover_rating, opponent |-> opponent_rating,
               out |-> select(mover_rating, opponent_rating)]
    /\ UNCHANGED <<codecVars, importVars, loaderVars, statusVars>>

NextSelect == \E m \in SampleRatings, o \in SampleRatings : Select(m, o)

SpecSelect == InitSelect /\ [][NextSelect]_vars

\* The bucket table of the specification, by ascending exclusive upper limit.
BucketLimits ==
    << <<1600, "GroupLow">>, <<1800, "Group1600">>, <<2000, "Group1800">>,
       <<2200, "Group2000">>, <<2500, "Group2200">>, <<2800, "Group2500">> >>
BucketOf(avg) ==
    IF \E k \in DOMAIN BucketLimits : avg < BucketLimits[k][1]
    THEN BucketLimits[CHOOSE k \in DOMAIN BucketLimits :
                         /\ avg < BucketLimits[k][1]
                         /\ \A l \in DOMAIN BucketLimits :
                               avg < BucketLimits[l][1] => k <= l][2]
    ELSE "Group3200"
AbsDiff(a, b) == IF a >= b THEN a - b ELSE b - a
Selected == sel # NoCall /\ sel.fn = "select"

C12_SelectExamples ==
    Selected =>
        /\ (sel.mover = 1800 /\ sel.opponent = 2000 => sel.out = "Group1800")
        /\ (sel.mover = 1800 /\ sel.opponent = 2150 => sel.out = "Group3200")
        /\ (sel.mover = 3500 /\ sel.opponent = 3400 => sel.out = "Group3200")

(***************************************************************************)
(* LichessEntry::prepare                                                   *)
(***************************************************************************)
MAX_TOP_GAMES == 4
\* LichessEntry::SIZE_HINT and PlayerEntry::SIZE_HINT
SIZE_HINT == 13

\* Stats::average_rating
StatsAverageRating(s) ==
    IF StatsTotal(s) = 0 THEN None ELSE Some(s.rating_sum \div StatsTotal(s))

\* Sort keys are tuples of one or two integers, compared lexicographically;
\* Reverse(x) is the key -x.
KeyLess(a, b) == a[1] < b[1] \/ (a[1] = b[1] /\ Len(a) > 1 /\ a[2] < b[2])

\* Vec::sort_by_key is a stable sort: an element comes after the elements that
\* sort before it and after its equals that precede it in the vector.
\* keys[i] is the key of s[i].
StableSort(s, keys) ==
    LET rank(i) == 1 + Cardinality({j \in 1..Len(s) :
                        \/ KeyLess(keys[j], keys[i])
                        \/ (~KeyLess(keys[i], keys[j]) /\ j < i)})
    IN  [r \in 1..Len(s) |-> s[CHOOSE i \in 1..Len(s) : rank(i) = r]]

\* The elements of s at the positions in keep, in order.
RECURSIVE Retain(_, _, _)
Retain(s, keep, i) ==
    IF i > Len(s) THEN <<>>
    ELSE (IF i \in keep THEN <<s[i]>> ELSE <<>>) \o Retain(s, keep, i + 1)

\* LichessQueryFilter: speeds and ratings are Option<Vec<_>>.
contains_speed(filter, speed) ==
    filter.speeds = None \/ speed \in filter.speeds[1]
contains_rating_group(filter, rating_group) ==
    filter.ratings = None \/ rating_group \in filter.ratings[1]
top_group(filter) == filter.top_group

RatingGroupOrd(rating_group) == IndexOf(RatingGroupALL, rating_group)

\* Variant of the recent-games sort that lists the oldest game first.
RecentGamesOldestFirst(g) == <<g.idx>>

\* recent_games.sort_by_key(|(_, _, idx, _, _)| Reverse(*idx))
RecentGamesOrder(g) == <<-g.idx>>

\* Variant of the top-games sort that ranks every rating group separately.
TopGamesOrderNoCap(g) == <<-RatingGroupOrd(g.rating_group), -g.idx>>

\* recent_games.sort_by_key(|(rating_group, _, idx, _, _)|
\*     (Reverse(min(*rating_group, RatingGroup::Group2500)), Reverse(*idx)))
TopGamesOrder(g) ==
    <<-Min(RatingGroupOrd(g.rating_group), RatingGroupOrd("Group2500")), -g.idx>>

\* lines 362-398: the selected cells of one move
PrepareCells(e, filter, uci) ==
    Flatten([ri \in 1..Len(RatingGroupALL) |->
        IF ~contains_rating_group(filter, RatingGroupALL[ri]) THEN <<>>
        ELSE Flatten([si \in 1..Len(SpeedALL) |->
            IF ~contains_speed(filter, SpeedALL[si]) THEN <<>>
            ELSE LET group == e.sub_entries[uci][SpeedALL[si]][RatingGroupALL[ri]]
                 IN  << [rating_group |-> RatingGroupALL[ri], speed |-> SpeedALL[si],
                         group |-> group] >>])])

\* stats += group.stats, over the cells q[i], q[i + 1], ...
RECURSIVE SumStatsFrom(_, _, _)
SumStatsFrom(q, i, field) ==
    IF i > Len(q) THEN 0
    ELSE q[i].group.stats[field] + SumStatsFrom(q, i + 1, field)
SumStats(q) == [field \in DOMAIN StatsDefault |-> SumStatsFrom(q, 1, field)]

PrepareGames(cells, uci) ==
    Flatten([c \in 1..Len(cells) |->
        [g \in 1..Len(cells[c].group.games) |->
            [rating_group |-> cells[c].rating_group, speed |-> cells[c].speed,
             idx |-> cells[c].group.games[g][1], uci |-> uci,
             game |-> cells[c].group.games[g][2]]]])

\* latest_game: replaced only by a game with a greater index, so it ends as the
\* first game with the greatest index
LatestGame(games) ==
    IF games = <<>> THEN None
    ELSE Some(games[CHOOSE i \in 1..Len(games) :
                \A j \in 1..Len(games) :
                    \/ games[j].idx < games[i].idx
                    \/ (games[j].idx = games[i].idx /\ i <= j)])

\* Variant of one move's row that attaches the latest game whatever the count.
PrepareMoveAnyCount(e, filter, uci) ==
    LET cells == PrepareCells(e, filter, uci)
        stats == SumStats(cells)
        games == PrepareGames(cells, uci)
        latest_game == LatestGame(games)
    IN  [uci |-> uci, stats |-> stats, games |-> games,
         pushed |-> ~StatsIsEmpty(stats) \/ latest_game # None,
         row |-> [uci |-> uci, stats |-> stats,
                  average_rating |-> StatsAverageRating(stats),
                  game |-> IF latest_game # None
                           THEN Some(latest_game[1].game) ELSE None]]

PrepareMove(e, filter, uci) ==
    LET cells == PrepareCells(e, filter, uci)
        stats == SumStats(cells)
        games == PrepareGames(cells, uci)
        latest_game == LatestGame(games)
    IN  [uci |-> uci, stats |-> stats, games |-> games,
         pushed |-> ~StatsIsEmpty(stats) \/ latest_game # None,
         row |-> [uci |-> uci, stats |-> stats,
                  average_rating |-> StatsAverageRating(stats),
                  game |-> IF latest_game # None /\ StatsIsSingle(stats)
                           THEN Some(latest_game[1].game) ELSE None]]

\* `order` is the iteration order of the move map.
LichessPrepare(e, filter, order) ==
    LET per_move == [i \in 1..Len(order) |-> PrepareMove(e, filter, order[i])]
        moves == Flatten([i \in 1..Len(order) |->
                    IF per_move[i].pushed THEN <<per_move[i].row>> ELSE <<>>])
        total == SumStats([i \in 1..Len(order) |-> [group |-> [stats |-> per_move[i].stats]]])
        collected == Flatten([i \in 1..Len(order) |-> per_move[i].games])
        by_top == IF top_group(filter) = None THEN collected
                  ELSE StableSort(collected,
                                  [i \in 1..Len(collected) |-> TopGamesOrder(collected[i])])
        eligible == IF top_group(filter) = None THEN {}
                    ELSE {i \in 1..Len(by_top) :
                            /\ RatingGroupOrd(by_top[i].rating_group)
                                  >= RatingGroupOrd(top_group(filter)[1])
                            /\ by_top[i].speed # "Correspondence"}
        taken == {i \in eligible :
                    Cardinality({j \in eligible : j < i}) < MAX_TOP_GAMES}
        top_games == Retain(by_top, taken, 1)
        rest == Retain(by_top, (1..Len(by_top)) \ taken, 1)
        recent == StableSort(rest, [i \in 1..Len(rest) |-> RecentGamesOrder(rest[i])])
        MovesOrder(row) == <<-StatsTotal(row.stats)>>
    IN  [total |-> total,
         moves |-> StableSort(moves, [i \in 1..Len(moves) |-> MovesOrder(moves[i])]),
         top_games |-> [i \in 1..Len(top_games) |-> <<top_games[i].uci, top_games[i].game>>],
         recent_games |->
            [i \in 1..Min(Len(recent), MAX_LICHESS_GAMES - Len(top_games)) |->
                <<recent[i].uci, recent[i].game>>]]

(***************************************************************************)
(* Single-game increments merged one blob at a time, and queries: the      *)
(* scenarios of test_lichess_entry and test_merge_player                   *)
(***************************************************************************)
TestA == [id |-> GameIdOf(0), uci |-> G1F3, speed |-> "Blitz", outcome |-> "draw",
          mover |-> 2000, opponent |-> 2200]
TestB == [id |-> GameIdOf(1), uci |-> D2D4, speed |-> "Blitz", outcome |-> "white",
          mover |-> 2000, opponent |-> 2200]
LichessSingles ==
    { TestA, TestB,
      [id |-> GameIdOf(2), uci |-> G1F3, speed |-> "Blitz", outcome |-> "black",
       mover |-> 2000, opponent |-> 2100],
      [id |-> GameIdOf(3), uci |-> G1F3, speed |-> "Blitz", outcome |-> "white",
       mover |-> 2040, opponent |-> 2100],
      [id |-> GameIdOf(4), uci |-> E2E4, speed |-> "Rapid", outcome |-> "draw",
       mover |-> 2600, opponent |-> 2650] }

PlayerA == [id |-> GameIdOf(0), uci |-> E2E4, speed |-> "Bullet", mode |-> "Rated",
            outcome |-> "white", opponent |-> 1600]
PlayerB == [id |-> GameIdOf(1), uci |-> E2E4, speed |-> "Bullet", mode |-> "Rated",
            outcome |-> "black", opponent |-> 1800]
PlayerC == [id |-> GameIdOf(2), uci |-> D2D4, speed |-> "Bullet", mode |-> "Rated",
            outcome |-> "draw", opponent |-> 1700]
PlayerSingles ==
    { PlayerA, PlayerB, PlayerC,
      [id |-> GameIdOf(3), uci |-> E2E4, speed |-> "Blitz", mode |-> "Casual",
       outcome |-> "draw", opponent |-> 1500] }

QueryFilters ==
    [speeds : {None, Some({"Blitz"})},
     ratings : {None, Some({"Group2000"}), Some({"Group2500", "Group2800", "Group3200"})},
     top_group : {None, Some("Group2200")}]

InitSingles ==
    /\ NoLoader /\ NoStatus
    /\ kind \in {"lichess", "player"}
    /\ entry = EntryDefault
    /\ operand = EntryDefault
    /\ created = <<>>
    /\ last = NoOp
    /\ sel = NoCall
    /\ games_db = <<>> /\ entries_db = <<>> /\ pc = <<>> /\ req = <<>>
    /\ ret = <<>> /\ hist = <<>> /\ ncalls = 0

NewSingle(k, g) ==
    IF k = "lichess"
    THEN LichessNewSingle(g.uci, g.speed, g.id, g.outcome, g.mover, g.opponent)
    ELSE PlayerNewSingle(g.uci, g.speed, g.mode, g.id, g.outcome, g.opponent)

\* new_single(..).write(&mut cursor); deserialized.extend_from_reader(cursor)
MergeSingle(g) ==
    /\ sel = NoCall
    /\ g \in (IF kind = "lichess" THEN LichessSingles ELSE PlayerSingles)
    /\ \A i \in 1..Len(created) : created[i].id # g.id
    /\ LET r == ExtendFromReader(kind, entry, Write(kind, NewSingle(kind, g), <<g.uci>>))
       IN  /\ entry' = r.entry
           /\ last' = [op |-> "merge", err |-> r.err]
    /\ created' = Append(created, g)
    /\ UNCHANGED <<kind, operand, importVars, sel, loaderVars, statusVars>>

\* "Roundtrip the combined entry": write it, read it into an empty entry.
Roundtrip(order) ==
    /\ sel = NoCall
    /\ UcisOf(entry) # {}
    /\ last.op # "roundtrip"
    /\ LET r == ExtendFromReader(kind, EntryDefault, Write(kind, entry, order))
       IN  /\ entry' = r.entry
           /\ last' = [op |-> "roundtrip", err |-> r.err]
    /\ UNCHANGED <<kind, operand, created, importVars, sel, loaderVars, statusVars>>

\* "Run query": deserialized.prepare(&filter)
Prepare(filter, order) ==
    /\ kind = "lichess"
    /\ sel = NoCall
    /\ sel' = [fn |-> "prepare", filter |-> filter,
               out |-> LichessPrepare(entry, filter, order)]
    /\ UNCHANGED <<codecVars, importVars, loaderVars, statusVars>>

NextSingles ==
    \/ \E g \in LichessSingles \cup PlayerSingles : MergeSingle(g)
    \/ \E order \in Orderings(UcisOf(entry)) : Roundtrip(order)
    \/ \E filter \in QueryFilters, order \in Orderings(UcisOf(entry)) :
            Prepare(filter, order)

SpecSingles == InitSingles /\ [][NextSingles]_vars

\* C13: after merging the two singles of test_lichess_entry (ratings 2000 and
\* 2200), the entry has 2 sub-entries and max_game_idx = 1, and prepare with
\* ratings = [Group2000] and all speeds returns recent_games =
\* [(d2d4, bbbbbbbb), (g1f3, aaaaaaaa)].
C13_TestLichessEntryQuery ==
    (/\ kind = "lichess"
     /\ created = <<TestA, TestB>>
     /\ sel # NoCall
     /\ sel.filter = [speeds |-> None, ratings |-> Some({"Group2000"}), top_group |-> None])
    =>
    /\ Cardinality(UcisOf(entry)) = 2
    /\ entry.max_game_idx = Some(1)
    /\ sel.out.recent_games = << <<D2D4, GameIdOf(1)>>, <<G1F3, GameIdOf(0)>> >>

\* The singles merged so far that fall into one group, and what the claim says
\* the group holds: game i of the merge order has index i - 1.
GroupKey(k, g) ==
    IF k = "lichess" THEN <<g.uci, g.speed, select(g.mover, g.opponent)>>
    ELSE <<g.uci, g.speed, g.mode>>
SingleRating(k, g) == IF k = "lichess" THEN g.mover ELSE g.opponent
MergedInto(key) == {i \in 1..Len(created) : GroupKey(kind, created[i]) = key}
CountWhere(S, outcome) == Cardinality({i \in S : created[i].outcome = outcome})
RECURSIVE RatingSumOf(_)
RatingSumOf(S) ==
    IF S = {} THEN 0
    ELSE LET i == CHOOSE x \in S : TRUE
         IN  SingleRating(kind, created[i]) + RatingSumOf(S \ {i})
ExpectedGames(S) ==
    LET IsAt(r, i) == i \in S /\ Cardinality({j \in S : j < i}) = r - 1
    IN  [r \in 1..Cardinality(S) |->
            LET i == CHOOSE x \in S : IsAt(r, x) IN <<i - 1, created[i].id>>]

\* C14: merging n single-game blobs, one extend_from_reader call per blob, into
\* an empty entry gives the games the indices 0..n-1 in merge order and
\* max_game_idx = n - 1; there is one sub-entry per distinct move; each group
\* holds the sums of the singles merged into it (the two e2e4 games of
\* test_merge_player: white 1, draws 0, black 1, average rating 1700, 2 games).
C14_SinglesMergeInOrder ==
    Len(created) >= 1 =>
        /\ last.err = "none"
        /\ entry.max_game_idx = Some(Len(created) - 1)
        /\ UcisOf(entry) = {created[i].uci : i \in 1..Len(created)}
        /\ \A uci \in UcisOf(entry), cell \in Cells(kind) :
              LET S == MergedInto(<<uci, cell[1], cell[2]>>)
                  group == GroupAt(entry, uci, cell)
              IN  /\ group.games = ExpectedGames(S)
                  /\ group.stats.white = CountWhere(S, "white")
                  /\ group.stats.draws = CountWhere(S, "draw")
                  /\ group.stats.black = CountWhere(S, "black")
                  /\ group.stats.rating_sum = RatingSumOf(S)
        /\ (kind = "player" /\ {PlayerA, PlayerB} \subseteq {created[i] : i \in 1..Len(created)}) =>
              LET group == GroupAt(entry, E2E4, <<"Bullet", "Rated">>)
              IN  /\ group.stats = [white |-> 1, draws |-> 0, black |-> 1, rating_sum |-> 3400]
                  /\ StatsAverageRating(group.stats) = Some(1700)
                  /\ Len(group.games) = 2

C14_Witness ==
    /\ kind = "player"
    /\ created = <<PlayerA, PlayerB, PlayerC>>
    /\ last.op = "roundtrip"
    /\ entry.max_game_idx = Some(2)
    /\ Cardinality(UcisOf(entry)) = 2
    /\ GroupAt(entry, E2E4, <<"Bullet", "Rated">>).games
          = << <<0, GameIdOf(0)>>, <<1, GameIdOf(1)>> >>

(***************************************************************************)
(* Groupings of merges: three entries A, B, C merged one after another,    *)
(* as (A B) C and as A (B C), with a re-encoding of the inner merge        *)
(***************************************************************************)
\* bound: number of games of the larger sample entries
MaxRun == 5

SingleX == [id |-> GameIdOf(2), uci |-> G1F3, speed |-> "Blitz", outcome |-> "black",
            mover |-> 2000, opponent |-> 2100]
SingleY == [id |-> GameIdOf(4), uci |-> E2E4, speed |-> "Rapid", outcome |-> "draw",
            mover |-> 2600, opponent |-> 2650]

\* An entry is described by the singles merged into it, in order.
EntryShapes ==
    { [i \in 1..n |-> g] : n \in {1, MaxRun}, g \in {SingleX, SingleY} }
        \cup { <<TestB, SingleX>> }

\* deserialized.extend_from_reader(write(operand)), as in test_lichess_entry
MergeBlob(e, blob) == LichessExtendFromReader(e, blob).entry

RECURSIVE MergeSingles(_, _, _)
MergeSingles(e, shape, i) ==
    IF i > Len(shape) THEN e
    ELSE MergeSingles(
            MergeBlob(e, LichessWrite(NewSingle("lichess", shape[i]), <<shape[i].uci>>)),
            shape, i + 1)
EntryOfShape(shape) == MergeSingles(EntryDefault, shape, 1)

\* The arguments are three entries built by merging singles.
InitRegroup ==
    /\ NoLoader /\ NoStatus
    /\ kind = "regroup"
    /\ sel \in {[fn |-> "regroup", a |-> EntryOfShape(sa), b |-> EntryOfShape(sb),
                 c |-> EntryOfShape(sc), done |-> FALSE] :
                    sa \in EntryShapes, sb \in EntryShapes, sc \in EntryShapes}
    /\ entry = EntryDefault /\ operand = EntryDefault /\ created = {} /\ last = NoOp
    /\ games_db = <<>> /\ entries_db = <<>> /\ pc = <<>> /\ req = <<>>
    /\ ret = <<>> /\ hist = <<>> /\ ncalls = 0

\* The three groupings for the entries A, B, C.  oA, oB, oC, oAB, oBC are the
\* iteration orders of the move maps at the five write calls.
Regroup(oA, oB, oC) ==
    /\ kind = "regroup"
    /\ ~sel.done
    /\ LET wA == LichessWrite(sel.a, oA)
           wB == LichessWrite(sel.b, oB)
           wC == LichessWrite(sel.c, oC)
           A0 == MergeBlob(EntryDefault, wA)
           AB == MergeBlob(A0, wB)
           BC == MergeBlob(MergeBlob(EntryDefault, wB), wC)
       IN  \E oAB \in Orderings(UcisOf(AB)), oBC \in Orderings(UcisOf(BC)) :
               sel' = [sel EXCEPT !.done = TRUE] @@
                      [seq |-> MergeBlob(AB, wC),
                       left |-> MergeBlob(MergeBlob(EntryDefault, LichessWrite(AB, oAB)), wC),
                       right |-> MergeBlob(A0, LichessWrite(BC, oBC))]
    /\ UNCHANGED <<codecVars, importVars, loaderVars, statusVars>>

NextRegroup ==
    \E oA \in Orderings(UcisOf(sel.a)), oB \in Orderings(UcisOf(sel.b)),
       oC \in Orderings(UcisOf(sel.c)) : Regroup(oA, oB, oC)

SpecRegroup == InitRegroup /\ [][NextRegroup]_vars

Regrouped == sel # NoCall /\ sel.fn = "regroup" /\ sel.done
AnyOrder(e) == CHOOSE o \in Orderings(UcisOf(e)) : TRUE
SeqToSet(q) == {q[i] : i \in 1..Len(q)}
\* Two prepared responses agree, up to the order of move rows with equal totals.
SamePrepared(p, q) ==
    /\ p.total = q.total
    /\ p.top_games = q.top_games
    /\ p.recent_games = q.recent_games
    /\ Len(p.moves) = Len(q.moves)
    /\ SeqToSet(p.moves) = SeqToSet(q.moves)
    /\ \A i \in 1..Len(p.moves) :
          StatsTotal(p.moves[i].stats) = StatsTotal(q.moves[i].stats)
SamePreparedForAll(e1, e2) ==
    \A filter \in QueryFilters :
        SamePrepared(LichessPrepare(e1, filter, AnyOrder(e1)),
                     LichessPrepare(e2, filter, AnyOrder(e2)))

\* C15 (as stated): (A B) re-encoded then C, and A then the re-encoding of
\* (B C), give the same decoded entry as A, B, C one after another: the same
\* moves, stats, game lists and game indices, and the same prepare() output.
C15_GroupingsAgree ==
    Regrouped =>
        /\ sel.left = sel.seq
        /\ sel.right = sel.seq
        /\ SamePreparedForAll(sel.left, sel.seq)
        /\ SamePreparedForAll(sel.right, sel.seq)

\* C15 (amended): the three groupings give the same moves, the same stats in
\* every partition, the same max_game_idx, the same newest MAX_LICHESS_GAMES
\* games with the same indices in every partition, and the same prepare()
\* output for every filter.
C15_GroupingsAgreeOnNewest ==
    Regrouped =>
        /\ Truncated("lichess", sel.left) = Truncated("lichess", sel.seq)
        /\ Truncated("lichess", sel.right) = Truncated("lichess", sel.seq)
        /\ SamePreparedForAll(sel.left, sel.seq)
        /\ SamePreparedForAll(sel.right, sel.seq)

C15_Witness ==
    /\ Regrouped
    /\ G1F3 \in UcisOf(sel.seq)
    /\ Len(sel.seq.sub_entries[G1F3]["Blitz"]["Group2000"].games) = 3 * MaxRun
    /\ Len(sel.left.sub_entries[G1F3]["Blitz"]["Group2000"].games)
          = MAX_LICHESS_GAMES + MaxRun
    /\ Len(sel.right.sub_entries[G1F3]["Blitz"]["Group2000"].games)
          = MaxRun + MAX_LICHESS_GAMES
    /\ sel.left.max_game_idx = Some(3 * MaxRun - 1)
    /\ sel.right.max_game_idx = Some(3 * MaxRun - 1)

(***************************************************************************)
(* The same single-game blobs merged in two orders, each run re-encoding   *)
(* the entry after some merge                                              *)
(***************************************************************************)
\* bound: number of sample games that fall into one partition
MaxSameCell == 9

SameCellSingle(i) ==
    [id |-> GameIdOf(4 + i), uci |-> G1F3, speed |-> "Blitz",
     outcome |-> <<"white", "draw", "black">>[(i % 3) + 1],
     mover |-> 2000 + i, opponent |-> 2100]
BaseOrder == [i \in 1..MaxSameCell |-> SameCellSingle(i)] \o <<TestB, SingleY>>
Rotate(q, n) == [i \in 1..Len(q) |-> q[((i + n - 1) % Len(q)) + 1]]
Reverse(q) == [i \in 1..Len(q) |-> q[Len(q) + 1 - i]]
MergeOrders == {BaseOrder, Rotate(BaseOrder, 1), Rotate(BaseOrder, 2), Reverse(BaseOrder)}
\* after which merge the entry is re-encoded (0: never)
ReencodePoints == {0, 5, Len(BaseOrder)}
MergeRuns == [order : MergeOrders, reencode_after : ReencodePoints]

ReencodeEntry(e) == MergeBlob(EntryDefault, LichessWrite(e, AnyOrder(e)))

\* One merge of a run: the i-th single of its order, then the re-encoding if
\* this is the run's re-encoding point.
RunMerge(e, run, i) ==
    LET merged == MergeBlob(e, LichessWrite(NewSingle("lichess", run.order[i]),
                                            <<run.order[i].uci>>))
    IN  IF run.reencode_after = i THEN ReencodeEntry(merged) ELSE merged

InitOrders ==
    /\ NoLoader /\ NoStatus
    /\ kind = "orders"
    /\ sel \in {[fn |-> "merge_orders", first |-> r1, second |-> r2, merged |-> 0] :
                    r1 \in MergeRuns, r2 \in MergeRuns}
    /\ entry = EntryDefault /\ operand = EntryDefault /\ created = {} /\ last = NoOp
    /\ games_db = <<>> /\ entries_db = <<>> /\ pc = <<>> /\ req = <<>>
    /\ ret = <<>> /\ hist = <<>> /\ ncalls = 0

\* The next merge of both runs: the first run builds `entry`, the second `operand`.
MergeInOrders ==
    /\ kind = "orders"
    /\ sel.merged < Len(BaseOrder)
    /\ entry' = RunMerge(entry, sel.first, sel.merged + 1)
    /\ operand' = RunMerge(operand, sel.second, sel.merged + 1)
    /\ sel' = [sel EXCEPT !.merged = @ + 1]
    /\ UNCHANGED <<kind, created, last, importVars, loaderVars, statusVars>>

NextOrders == MergeInOrders

SpecOrders == InitOrders /\ [][NextOrders]_vars

OrdersMerged == kind = "orders" /\ sel.merged = Len(BaseOrder)
IdsOf(games) == {games[i][2] : i \in 1..Len(games)}
SingleCell(g) == <<g.speed, select(g.mover, g.opponent)>>
Received(uci, cell) ==
    Cardinality({i \in 1..Len(BaseOrder) :
                    BaseOrder[i].uci = uci /\ SingleCell(BaseOrder[i]) = cell})

\* C16 (as stated): merging the same single-game blobs in any order, with
\* re-encoding after any merge, gives the same stats and the same set of game ids
\* in every partition.
C16_OrderIndependent ==
    OrdersMerged =>
        /\ UcisOf(entry) = UcisOf(operand)
        /\ \A uci \in UcisOf(entry), cell \in Cells("lichess") :
              /\ GroupAt(entry, uci, cell).stats = GroupAt(operand, uci, cell).stats
              /\ IdsOf(GroupAt(entry, uci, cell).games)
                    = IdsOf(GroupAt(operand, uci, cell).games)

\* C16 (amended): the stats of every partition are the same in any order, and so
\* is the set of game ids of every partition that received at most
\* MAX_LICHESS_GAMES games.
C16_OrderIndependentUpToCap ==
    OrdersMerged =>
        /\ UcisOf(entry) = UcisOf(operand)
        /\ \A uci \in UcisOf(entry), cell \in Cells("lichess") :
              /\ GroupAt(entry, uci, cell).stats = GroupAt(operand, uci, cell).stats
              /\ Received(uci, cell) <= MAX_LICHESS_GAMES =>
                    IdsOf(GroupAt(entry, uci, cell).games)
                        = IdsOf(GroupAt(operand, uci, cell).games)

C16_Witness ==
    /\ OrdersMerged
    /\ sel.first.order = BaseOrder /\ sel.first.reencode_after = Len(BaseOrder)
    /\ sel.second.order = Reverse(BaseOrder) /\ sel.second.reencode_after = 5
    /\ entry # operand
    /\ StatsTotal(GroupAt(entry, G1F3, <<"Blitz", "Group2000">>).stats) = MaxSameCell
    /\ IdsOf(GroupAt(entry, D2D4, <<"Blitz", "Group3200">>).games) = {GameIdOf(1)}
    /\ IdsOf(GroupAt(operand, D2D4, <<"Blitz", "Group3200">>).games) = {GameIdOf(1)}


(***************************************************************************)
(* Admission of masters games (importer.rs 42-50)                          *)
(***************************************************************************)
AverageBelow(body, limit) == (body.white + body.black) \div 2 < limit
HalvedSumBelow(body, limit) == (body.white \div 2) + (body.black \div 2) < limit
YearOutside(body) == body.year < YearMinMasters \/ body.year > YearMaxMasters
RejectedEarly(t) ==
    /\ Begins(t)
    /\ hist'[t].reads = 0
    /\ hist'[t].commits = 0
    /\ StoreUnchanged

\* C17 (as stated): a masters import returns RejectedImport exactly when
\* (white + black) / 2 < 2200 or the year is outside the window, and then it
\* has neither read nor written the store.
C17_RejectedByAverage ==
    [][\A t \in Tasks :
          (kind = "masters" /\ Finishes(t)) =>
             /\ ret'[t].res = "RejectedImport"
                   <=> (AverageBelow(req'[t], 2200) \/ YearOutside(req'[t]))
             /\ ret'[t].res = "RejectedImport" => RejectedEarly(t)]_vars

\* C17 (amended): a masters import returns RejectedImport exactly when
\* white / 2 + black / 2 < 2200 (each half rounded down) or the year is outside
\* the window; the sum of the halves does not overflow 16 bits; a rejected call
\* has neither read nor written the store.
C17_RejectedByHalvedSum ==
    [][\A t \in Tasks :
          (kind = "masters" /\ Finishes(t)) =>
             /\ ret'[t].res = "RejectedImport"
                   <=> (HalvedSumBelow(req'[t], 2200) \/ YearOutside(req'[t]))
             /\ ret'[t].res = "RejectedImport" => RejectedEarly(t)]_vars

\* A game with ratings 2199 and 2201 (average 2200) has been rejected without a
\* read, while its id was in the store and another game had been committed
\* with ratings whose sum exceeds 16 bits, in the first year of the window.
C17_Witness ==
    /\ kind = "masters"
    /\ \E t \in Tasks :
          /\ pc[t] = "idle"
          /\ ret[t].res = "RejectedImport"
          /\ req[t].white = 2199 /\ req[t].black = 2201
          /\ ~YearOutside(req[t])
          /\ hist[t].reads = 0
          /\ HasGame(req[t].id)
    /\ \E u \in Tasks :
          /\ ret[u].res = "Ok"
          /\ req[u].white + req[u].black >= 65536
          /\ req[u].year = YearMinMasters


(***************************************************************************)
(* The final key check of masters games (importer.rs 61-79)                *)
(***************************************************************************)
ChecksFinalKey(t) ==
    kind = "masters" /\ pc[t] = "masters_final_key" /\ pc'[t] # "masters_final_key"
RefusedAsDuplicate(t) ==
    /\ pc'[t] = "idle"
    /\ ret'[t] = Result("DuplicateGame", req[t].id)
    /\ hist'[t].commits = 0
    /\ StoreUnchanged
PositionAfterLastMove(g) == Play(g.positions[Len(g.moves)], g.moves[Len(g.moves)])
KeyAfterLastMove(g) == Key(g.corpus, PositionAfterLastMove(g), g.bucket)

\* C18 (as stated): a masters import with a new id is refused with DuplicateGame,
\* without any write, whenever an entry exists at the key of the position after
\* the game's last move, in the game's year.
C18_DuplicateByPositionAfterLastMove ==
    [][\A t \in Tasks :
          (/\ ChecksFinalKey(t)
           /\ req[t].moves # <<>>
           /\ Has(KeyAfterLastMove(GameView(req[t]))))
             => RefusedAsDuplicate(t)]_vars

\* C18 (amended): a masters import with a new id, admitted and with legal moves,
\* is refused with DuplicateGame, without any write, whenever at the time of the
\* check an entry exists at the key of the position before the game's last move
\* (the last key the game itself contributes to), in the game's year.
C18_DuplicateByLastContributedKey ==
    [][\A t \in Tasks :
          (/\ ChecksFinalKey(t)
           /\ req[t].moves # <<>>
           /\ Has(KeyAtPly(GameView(req[t]), Len(req[t].moves))))
             => RefusedAsDuplicate(t)]_vars

\* A new id has been refused by the final key check: its game ends with a move
\* back to the starting position, from a position another game had contributed to.
C18_Witness ==
    /\ kind = "masters"
    /\ \E t \in Tasks :
          /\ hist[t].calls > 0
          /\ pc[t] = "idle"
          /\ ret[t] = Result("DuplicateGame", req[t].id)
          /\ ~hist[t].present
          /\ hist[t].reads = 2
          /\ req[t].moves = <<"f", "f", "f", "r">>
          /\ ~HasGame(req[t].id)
          /\ Has(Key("masters", 3, req[t].year))


(***************************************************************************)
(* The plies of a long game                                                *)
(***************************************************************************)
\* C19: a committed import of a game with at least MAX_PLIES plies issues exactly
\* MAX_PLIES merges.
C19_ExactlyMaxPliesMerges ==
    \A t \in Tasks :
        (hist[t].commits = 1 /\ Len(req[t].moves) >= MAX_PLIES)
            => hist[t].merges = MAX_PLIES


(***************************************************************************)
(* Skipped speeds (importer.rs 148-155)                                    *)
(***************************************************************************)
SkippedSpeeds == {"UltraBullet", "Bullet"}

\* C20: a lichess import of an UltraBullet or Bullet game returns success and
\* leaves the store unchanged, whatever else the game contains.
C20_BulletSkipped ==
    [][\A t \in Tasks :
          (kind = "lichess" /\ Begins(t) /\ req'[t].speed \in SkippedSpeeds) =>
             /\ pc'[t] = "idle"
             /\ ret'[t] = Result("Ok", req'[t].id)
             /\ hist'[t].commits = 0
             /\ StoreUnchanged]_vars

\* A Bullet game without a month, with an invalid FEN and an illegal move, and
\* an UltraBullet game, both not indexed before, have returned success while the
\* store held entries of another game.
C20_Witness ==
    /\ kind = "lichess"
    /\ entries_db # <<>>
    /\ \E t, u \in Tasks :
          /\ hist[t].calls > 0 /\ hist[u].calls > 0
          /\ pc[t] = "idle" /\ pc[u] = "idle"
          /\ req[t].speed = "Bullet" /\ req[t].month = None
          /\ req[t].fen = "invalid" /\ req[t].moves = <<"x">>
          /\ ret[t] = Result("Ok", req[t].id) /\ ~hist[t].present
          /\ req[u].speed = "UltraBullet"
          /\ ret[u] = Result("Ok", req[u].id) /\ ~hist[u].present
          /\ ~HasGame(req[t].id)


(***************************************************************************)
(* The bulk loader (index-pgn/src/bin/index-lichess.rs): the main thread   *)
(* parses PGN files with the Importer visitor and sends batches of games   *)
(* over a bounded channel to a background thread, which ships them.        *)
(* The value of a WhiteElo, BlackElo or TimeControl header is the sequence  *)
(* of its characters, the value of Site the sequence of its segments       *)
(* between '/' (the last one, the game id, a sequence of characters), any  *)
(* other value a string.                                                   *)
(***************************************************************************)
ChannelCapacity == 50

\* Speed::from_seconds_and_increment
from_seconds_and_increment(seconds, increment) ==
    LET total == seconds + 40 * increment IN
    IF total < 30 THEN "UltraBullet"
    ELSE IF total < 180 THEN "Bullet"
    ELSE IF total < 480 THEN "Blitz"
    ELSE IF total < 1500 THEN "Rapid"
    ELSE IF total < 21600 THEN "Classical"
    ELSE "Correspondence"

Digits == <<"0", "1", "2", "3", "4", "5", "6", "7", "8", "9">>

\* btoi::btoi / btoi::btou on a sequence of decimal digits
RECURSIVE BtoiFrom(_, _, _)
BtoiFrom(bytes, i, n) ==
    IF i > Len(bytes) THEN n
    ELSE BtoiFrom(bytes, i + 1, n * 10 + (IndexOf(Digits, bytes[i]) - 1))
btoi(bytes) == BtoiFrom(bytes, 1, 0)

\* Speed::from_bytes: "-" or seconds '+' increment
SpeedFromBytes(bytes) ==
    IF bytes = <<"-">> THEN "Correspondence"
    ELSE LET plus == IndexOf(bytes, "+")
         IN  from_seconds_and_increment(btoi(SubSeq(bytes, 1, plus - 1)),
                                        btoi(SubSeq(bytes, plus + 1, Len(bytes))))

\* `ch as i32` for the characters of game ids
UpperCase == <<"A", "B", "C", "D", "E", "F", "G", "H", "I", "J", "K", "L", "M",
               "N", "O", "P", "Q", "R", "S", "T", "U", "V", "W", "X", "Y", "Z">>
LowerCase == <<"a", "b", "c", "d", "e", "f", "g", "h", "i", "j", "k", "l", "m",
               "n", "o", "p", "q", "r", "s", "t", "u", "v", "w", "x", "y", "z">>
CodePoint(ch) ==
    IF \E i \in 1..10 : Digits[i] = ch
    THEN 47 + (CHOOSE i \in 1..10 : Digits[i] = ch)
    ELSE IF \E i \in 1..26 : UpperCase[i] = ch
    THEN 64 + (CHOOSE i \in 1..26 : UpperCase[i] = ch)
    ELSE 96 + (CHOOSE i \in 1..26 : LowerCase[i] = ch)

\* Variant of the hash step that multiplies by 33.
WrappingMulAdd33(hash, ch) ==
    LET lo == hash.lo * 33 + CodePoint(ch)
    IN  [hi |-> (hash.hi * 33 + (lo \div 65536)) % 65536, lo |-> lo % 65536]

\* An i32 is kept as its two 16-bit halves, so that no intermediate value
\* exceeds 32 bits: hash.wrapping_mul(31).wrapping_add(ch as i32)
WrappingMulAdd(hash, ch) ==
    LET lo == hash.lo * 31 + CodePoint(ch)
    IN  [hi |-> (hash.hi * 31 + (lo \div 65536)) % 65536, lo |-> lo % 65536]
\* the two's-complement value of the halves
I32(hash) ==
    IF hash.hi >= 32768 THEN (hash.hi - 65536) * 65536 + hash.lo
    ELSE hash.hi * 65536 + hash.lo

RECURSIVE HashChars(_, _, _)
HashChars(s, i, hash) ==
    IF i > Len(s) THEN hash ELSE HashChars(s, i + 1, WrappingMulAdd(hash, s[i]))
java_hash_code(s) == I32(HashChars(s, 1, [hi |-> 0, lo |-> 0]))

\* the % of i32: the remainder has the sign of the dividend
RemI32(a, b) ==
    IF a >= 0 \/ a % b = 0 THEN a % b ELSE (a % b) - b

PlayerDefault == [name |-> None, rating |-> None]
\* Game::default(); `src` (file, game) is not in the code: it records which
\* game of the input the record was parsed from.
GameDefault(src) ==
    [variant |-> None, speed |-> None, fen |-> None, id |-> None, date |-> None,
     white |-> PlayerDefault, black |-> PlayerDefault, winner |-> None,
     moves |-> <<>>, src |-> src]

StartingFen == "rnbqkbnr/pppppppp/8/8/8/8/PPPPPPPP/RNBQKBNR w KQkq - 0 1"

\* Outcome::from_ascii
OutcomeFromAscii(value) ==
    IF value = "1-0" THEN [err |-> FALSE, winner |-> Some("white")]
    ELSE IF value = "0-1" THEN [err |-> FALSE, winner |-> Some("black")]
    ELSE IF value = "1/2-1/2" THEN [err |-> FALSE, winner |-> None]
    ELSE [err |-> TRUE, winner |-> None]

\* Importer::header: the visitor after one header
VisitHeader(imp, key, value) ==
    IF key = "White" THEN [imp EXCEPT !.current.white.name = Some(value)]
    ELSE IF key = "Black" THEN [imp EXCEPT !.current.black.name = Some(value)]
    ELSE IF key = "WhiteElo"
    THEN (IF value # <<"?">> THEN [imp EXCEPT !.current.white.rating = Some(btoi(value))]
          ELSE imp)
    ELSE IF key = "BlackElo"
    THEN (IF value # <<"?">> THEN [imp EXCEPT !.current.black.rating = Some(btoi(value))]
          ELSE imp)
    ELSE IF key = "TimeControl"
    THEN [imp EXCEPT !.current.speed = Some(SpeedFromBytes(value))]
    ELSE IF key = "Variant" THEN [imp EXCEPT !.current.variant = Some(value)]
    ELSE IF key = "Date" \/ key = "UTCDate" THEN [imp EXCEPT !.current.date = Some(value)]
    ELSE IF key = "WhiteTitle" \/ key = "BlackTitle"
    THEN (IF value = "BOT" THEN [imp EXCEPT !.skip = TRUE] ELSE imp)
    ELSE IF key = "Site" THEN [imp EXCEPT !.current.id = Some(value[Len(value)])]
    ELSE IF key = "Result"
    THEN (IF OutcomeFromAscii(value).err
          THEN [imp EXCEPT !.skip = TRUE]
          ELSE [imp EXCEPT !.current.winner = OutcomeFromAscii(value).winner])
    ELSE IF key = "FEN"
    THEN (IF value = StartingFen THEN [imp EXCEPT !.current.fen = None]
          ELSE [imp EXCEPT !.current.fen = Some(value)])
    ELSE imp

unwrap_or(opt, default) == IF opt = None THEN default ELSE opt[1]

\* lines 183-214: the acceptance probability in percent
Probability(current, rating) ==
    LET standard == current.variant = None \/ current.variant[1] = "Standard"
        speed == unwrap_or(current.speed, "Correspondence")
    IN  IF standard
        THEN IF speed = "Correspondence" \/ speed = "Classical" THEN 0
             ELSE IF speed = "Rapid" /\ rating >= 2200 THEN 100
             ELSE IF speed = "Rapid" /\ rating >= 2000 THEN 100
             ELSE IF speed = "Rapid" /\ rating >= 1800 THEN 100
             ELSE IF speed = "Rapid" /\ rating >= 1600 THEN 100
             ELSE IF speed = "Blitz" /\ rating >= 2200 THEN 100
             ELSE IF speed = "Blitz" /\ rating >= 2000 THEN 100
             ELSE IF speed = "Blitz" /\ rating >= 1600 THEN 100
             ELSE IF speed = "Bullet" /\ rating >= 2200 THEN 0
             ELSE IF speed = "Bullet" /\ rating >= 2000 THEN 0
             ELSE IF speed = "Bullet" /\ rating >= 1800 THEN 0
             ELSE IF speed = "Bullet" /\ rating >= 1600 THEN 0
             ELSE IF speed = "UltraBullet" THEN 0
             ELSE 0
        ELSE IF rating >= 1600 THEN 0 ELSE 0

\* Importer::end_headers, lines 174-227.  The ratings are u16: with overflow
\* checks (debug build) an addition or a subtraction out of range panics,
\* without them (release build) it wraps.  && evaluates its right operand only
\* when the left one holds.
EndHeadersEval(current, skip, build) ==
    LET white == unwrap_or(current.white.rating, 0)
        black == unwrap_or(current.black.rating, 0)
        rating == U16(white + black) \div 2
        probability == Probability(current, rating)
        min_ok == Min(white, black) >= 1501
        diff == U16(white - black)
        hashed == min_ok /\ diff < 150 /\ diff < 150 /\ current.id # None
    IN  IF build = "debug"
           /\ (white + black > 65535 \/ (min_ok /\ white - black < 0))
        THEN [panic |-> TRUE, accept |-> FALSE, hashed |-> FALSE]
        ELSE [panic |-> FALSE,
              accept |-> /\ min_ok
                         /\ diff < 150
                         /\ diff < 150
                         /\ IF current.id = None THEN FALSE
                            ELSE probability > RemI32(java_hash_code(current.id[1]), 100)
                         /\ ~skip,
              hashed |-> hashed]

\* the background thread holds no batch
NoBatch == [filename |-> 0, games |-> <<>>]

\* Importer::new
ImporterNew(filename) ==
    [filename |-> filename, current |-> GameDefault(None), skip |-> FALSE, batch |-> <<>>]

\* Variant of the channel without a capacity.
CanSendUnbounded == TRUE

\* tx.send(Batch { filename, games: mem::replace(&mut self.batch, ..) }): it
\* blocks while the channel is full.
CanSend == Len(chan.queue) < ChannelCapacity
SendBatch(queue, imp, games) == Append(queue, [filename |-> imp.filename, games |-> games])

FileAt(i) == pgns.files[i]
GameAt(m) == FileAt(m.file)[m.game]
\* after a game, read_all turns to the next game or returns
AfterGame(m) ==
    IF m.game < Len(FileAt(m.file))
    THEN [m EXCEPT !.pc = "begin_game", !.game = m.game + 1, !.hdr = 1, !.san = 1]
    ELSE [m EXCEPT !.pc = "send"]

\* main, lines 307-321: the next file is opened and gets a new Importer with a
\* clone of the sender
OpenFile ==
    /\ main.pc = "open"
    /\ IF main.file > Len(pgns.files)
       THEN /\ main' = [main EXCEPT !.pc = "drop"]
            /\ UNCHANGED <<importer, chan>>
       ELSE /\ importer' = ImporterNew(main.file)
            /\ chan' = [chan EXCEPT !.senders = @ + 1]
            /\ main' = IF FileAt(main.file) = <<>>
                       THEN [main EXCEPT !.pc = "send"]
                       ELSE [main EXCEPT !.pc = "begin_game", !.game = 1,
                                         !.hdr = 1, !.san = 1]
    /\ UNCHANGED <<pgns, bg, shipped, codecVars, importVars, statusVars, sel>>

\* Variant of begin_game that keeps the skip flag of the game before.
BeginGameKeepSkip ==
    /\ main.pc = "begin_game"
    /\ importer' = [importer EXCEPT !.current = GameDefault(Some(<<main.file, main.game>>))]
    /\ main' = [main EXCEPT !.pc = IF GameAt(main).headers = <<>>
                                   THEN "end_headers" ELSE "header"]
    /\ UNCHANGED <<pgns, chan, bg, shipped, codecVars, importVars, statusVars, sel>>

\* Importer::begin_game
BeginGame ==
    /\ main.pc = "begin_game"
    /\ importer' = [importer EXCEPT !.skip = FALSE,
                                    !.current = GameDefault(Some(<<main.file, main.game>>))]
    /\ main' = [main EXCEPT !.pc = IF GameAt(main).headers = <<>>
                                   THEN "end_headers" ELSE "header"]
    /\ UNCHANGED <<pgns, chan, bg, shipped, codecVars, importVars, statusVars, sel>>

\* Importer::header, for the next header of the game
Header ==
    /\ main.pc = "header"
    /\ LET h == GameAt(main).headers[main.hdr]
       IN  importer' = VisitHeader(importer, h[1], h[2])
    /\ main' = IF main.hdr < Len(GameAt(main).headers)
               THEN [main EXCEPT !.hdr = main.hdr + 1]
               ELSE [main EXCEPT !.pc = "end_headers"]
    /\ UNCHANGED <<pgns, chan, bg, shipped, codecVars, importVars, statusVars, sel>>

\* Importer::end_headers; a skipped game's moves are not visited.
EndHeaders ==
    /\ main.pc = "end_headers"
    /\ LET r == EndHeadersEval(importer.current, importer.skip, pgns.build) IN
       /\ IF r.panic
          THEN /\ main' = [main EXCEPT !.pc = "panicked"]
               /\ importer' = importer
          ELSE /\ importer' = [importer EXCEPT !.skip = ~r.accept]
               /\ main' = [main EXCEPT !.pc = IF r.accept /\ GameAt(main).sans # <<>>
                                              THEN "san" ELSE "end_game"]
       /\ sel' = IF r.hashed
                 THEN [fn |-> "java_hash_code", s |-> importer.current.id[1],
                       out |-> java_hash_code(importer.current.id[1])]
                 ELSE sel
    /\ UNCHANGED <<pgns, chan, bg, shipped, codecVars, importVars, statusVars>>

\* Importer::san
San ==
    /\ main.pc = "san"
    /\ importer' = [importer EXCEPT !.current.moves = Append(@, GameAt(main).sans[main.san])]
    /\ main' = IF main.san < Len(GameAt(main).sans)
               THEN [main EXCEPT !.san = main.san + 1]
               ELSE [main EXCEPT !.pc = "end_game"]
    /\ UNCHANGED <<pgns, chan, bg, shipped, codecVars, importVars, statusVars, sel>>

\* Importer::end_game, with Importer::send when the batch is full
EndGame ==
    /\ main.pc = "end_game"
    /\ IF importer.skip
       THEN UNCHANGED <<importer, chan>>
       ELSE LET batch == Append(importer.batch, importer.current) IN
            IF Len(batch) >= pgns.batch_size
            THEN /\ CanSend
                 /\ chan' = [chan EXCEPT !.queue = SendBatch(@, importer, batch)]
                 /\ importer' = [importer EXCEPT !.current = GameDefault(None),
                                                 !.batch = <<>>]
            ELSE /\ importer' = [importer EXCEPT !.current = GameDefault(None),
                                                 !.batch = batch]
                 /\ chan' = chan
    /\ main' = AfterGame(main)
    /\ UNCHANGED <<pgns, bg, shipped, codecVars, importVars, statusVars, sel>>

\* main, line 322: importer.send() after read_all; the Importer and its sender
\* are dropped at the end of the loop body
FileSend ==
    /\ main.pc = "send"
    /\ CanSend
    /\ chan' = [queue |-> SendBatch(chan.queue, importer, importer.batch),
                senders |-> chan.senders - 1]
    /\ importer' = [importer EXCEPT !.batch = <<>>]
    /\ main' = [main EXCEPT !.pc = "open", !.file = main.file + 1]
    /\ UNCHANGED <<pgns, bg, shipped, codecVars, importVars, statusVars, sel>>

\* main, line 325: drop(tx)
DropTx ==
    /\ main.pc = "drop"
    /\ chan' = [chan EXCEPT !.senders = @ - 1]
    /\ main' = [main EXCEPT !.pc = "join"]
    /\ UNCHANGED <<pgns, importer, bg, shipped, codecVars, importVars, statusVars, sel>>

\* main, lines 326-327: bg.join() and return
Join ==
    /\ main.pc = "join"
    /\ bg.pc = "exited"
    /\ main' = [main EXCEPT !.pc = "done"]
    /\ UNCHANGED <<pgns, importer, chan, bg, shipped, codecVars, importVars, statusVars, sel>>

\* Variant of rx.recv() that fails as soon as every sender is gone.
BgRecvUntilDisconnected ==
    /\ main.pc # "panicked"
    /\ bg.pc = "recv"
    /\ IF chan.senders = 0
       THEN /\ bg' = [bg EXCEPT !.pc = "exited"]
            /\ chan' = chan
       ELSE /\ chan.queue # <<>>
            /\ bg' = [pc |-> "put", batch |-> Head(chan.queue)]
            /\ chan' = [chan EXCEPT !.queue = Tail(@)]
    /\ UNCHANGED <<pgns, main, importer, shipped, codecVars, importVars, statusVars, sel>>

\* bg, line 283: rx.recv() takes the oldest queued batch, waits while the queue
\* is empty and a sender is alive, and fails once it is empty and none is.
\* A panic of the main thread ends the process.
BgRecv ==
    /\ main.pc # "panicked"
    /\ bg.pc = "recv"
    /\ IF chan.queue # <<>>
       THEN /\ bg' = [pc |-> "put", batch |-> Head(chan.queue)]
            /\ chan' = [chan EXCEPT !.queue = Tail(@)]
       ELSE /\ chan.senders = 0
            /\ bg' = [bg EXCEPT !.pc = "exited"]
            /\ chan' = chan
    /\ UNCHANGED <<pgns, main, importer, shipped, codecVars, importVars, statusVars, sel>>

\* bg, lines 284-303: the batch is PUT to the indexer and the response printed
BgPut ==
    /\ main.pc # "panicked"
    /\ bg.pc = "put"
    /\ shipped' = Append(shipped, bg.batch)
    /\ bg' = [pc |-> "recv", batch |-> NoBatch]
    /\ UNCHANGED <<pgns, main, importer, chan, codecVars, importVars, statusVars, sel>>

(***************************************************************************)
(* The PGN files the loader is run on                                      *)
(***************************************************************************)
\* bound: number of games of the longest file
MaxFileGames == 52

RECURSIVE Decimal(_)
Decimal(n) ==
    IF n < 10 THEN <<Digits[n + 1]>>
    ELSE Decimal(n \div 10) \o <<Digits[(n % 10) + 1]>>
TimeControl(seconds, increment) == Decimal(seconds) \o <<"+">> \o Decimal(increment)

\* the ids of test_java_hash_code, and two ids whose hash is negative
IdDXZdUVdv == <<"D", "X", "Z", "d", "U", "V", "d", "v">>
Id4mn73Yni == <<"4", "m", "n", "7", "3", "Y", "n", "i">>
IdVFa7wmDN == <<"V", "F", "a", "7", "w", "m", "D", "N">>
IdrvSvQdIe == <<"r", "v", "S", "v", "Q", "d", "I", "e">>
Idzzzzzzzz == <<"z", "z", "z", "z", "z", "z", "z", "z">>
Idbbbbbbbb == <<"b", "b", "b", "b", "b", "b", "b", "b">>
SampleIds == {IdDXZdUVdv, Id4mn73Yni, IdVFa7wmDN, IdrvSvQdIe, Idzzzzzzzz, Idbbbbbbbb}

\* a game of a PGN file: its headers in order, and its mainline moves
PgnGame(id, white_elo, black_elo, time_control, more_headers, sans) ==
    [headers |-> (IF id = None THEN <<>>
                  ELSE << <<"Site", <<"https:", "", "lichess.org", id[1]>> >> >>)
                 \o << <<"WhiteElo", white_elo>>, <<"BlackElo", black_elo>>,
                       <<"TimeControl", time_control>> >>
                 \o more_headers,
     sans |-> sans]

SampleElos ==
    { <<Decimal(1700), Decimal(1600)>>, <<Decimal(1600), Decimal(1700)>>,
      <<Decimal(1501), Decimal(1501)>>, <<Decimal(1500), Decimal(1600)>>,
      <<Decimal(1650), Decimal(1501)>>, <<Decimal(1651), Decimal(1501)>>,
      <<Decimal(1501), Decimal(1650)>>, <<Decimal(1590), Decimal(1600)>>,
      <<Decimal(2300), Decimal(2300)>>, <<Decimal(40000), Decimal(40000)>>,
      << <<"?">>, Decimal(1700)>> }
SampleTimeControls ==
    { <<"-">>, TimeControl(15, 0), TimeControl(60, 0), TimeControl(180, 0),
      TimeControl(300, 3), TimeControl(600, 0), TimeControl(1800, 0) }
SampleHeaders ==
    { << <<"Variant", "Standard">> >>, << <<"Variant", "Atomic">> >>,
      << <<"WhiteTitle", "BOT">> >>, << <<"BlackTitle", "BOT">> >>,
      << <<"WhiteTitle", "GM">>, <<"White", "a">>, <<"Black", "b">> >>,
      << <<"Result", "1-0">>, <<"UTCDate", "2021.01.01">> >>,
      << <<"Result", "*">> >>,
      << <<"Result", "1/2">>, <<"Result", "0-1">> >>,
      << <<"Result", "1/2-1/2">>, <<"FEN", StartingFen>> >>,
      << <<"FEN", "8/8/8/8/8/8/8/K1k5 w - - 0 1">>, <<"Event", "e">> >> }

GoodGame == PgnGame(Some(IdDXZdUVdv), Decimal(1700), Decimal(1600),
                    TimeControl(300, 3), <<>>, <<"e4", "e5">>)
ClassicalGame == PgnGame(Some(Idzzzzzzzz), Decimal(1700), Decimal(1600),
                         TimeControl(1800, 0), <<>>, <<"d4">>)
BotGame == PgnGame(Some(Id4mn73Yni), Decimal(1700), Decimal(1600),
                   TimeControl(300, 3), << <<"BlackTitle", "BOT">> >>, <<"e4">>)
NoResultGame == PgnGame(Some(IdVFa7wmDN), Decimal(1700), Decimal(1600),
                        TimeControl(300, 3), << <<"Result", "?">> >>, <<"e4">>)
BareGame == [headers |-> <<>>, sans |-> <<>>]

\* one game per file: every combination of id, ratings and time control, and
\* two games with each of the other headers
SingleGames ==
    {PgnGame(id, elos[1], elos[2], tc, <<>>, <<"e4">>) :
        id \in {None} \cup {Some(i) : i \in SampleIds},
        elos \in SampleElos, tc \in SampleTimeControls}
    \cup {[g EXCEPT !.headers = @ \o more] :
            g \in {GoodGame, ClassicalGame}, more \in SampleHeaders}
\* files in which a skipped game comes before or after an admitted one
MixedFiles ==
    {<<a, b, c>> : a \in {GoodGame, BotGame, NoResultGame},
                   b \in {GoodGame, BotGame, NoResultGame, BareGame},
                   c \in {GoodGame, ClassicalGame}}
LongFile == [i \in 1..MaxFileGames |-> GoodGame]

LoaderRuns ==
    {[build |-> b, batch_size |-> 2, files |-> <<(<<g>>)>>] :
        b \in {"debug", "release"}, g \in SingleGames}
    \cup {[build |-> "release", batch_size |-> n, files |-> fs] :
            n \in {0, 1, 2, 200},
            fs \in {<<>>, <<(<<>>)>>} \cup {<<f, <<GoodGame>> >> : f \in MixedFiles}}
    \cup {[build |-> "release", batch_size |-> 1, files |-> <<LongFile>>]}

InitLoader ==
    /\ kind = "loader"
    /\ pgns \in LoaderRuns
    /\ main = [pc |-> "open", file |-> 1, game |-> 1, hdr |-> 1, san |-> 1]
    /\ importer = ImporterNew(0)
    /\ chan = [queue |-> <<>>, senders |-> 1]
    /\ bg = [pc |-> "recv", batch |-> NoBatch]
    /\ shipped = <<>>
    /\ sel = NoCall
    /\ entry = EntryDefault /\ operand = EntryDefault /\ created = {} /\ last = NoOp
    /\ games_db = <<>> /\ entries_db = <<>> /\ pc = <<>> /\ req = <<>>
    /\ ret = <<>> /\ hist = <<>> /\ ncalls = 0
    /\ NoStatus

NextLoader ==
    \/ OpenFile
    \/ BeginGame
    \/ Header
    \/ EndHeaders
    \/ San
    \/ EndGame
    \/ FileSend
    \/ DropTx
    \/ Join
    \/ BgRecv
    \/ BgPut

SpecLoader == InitLoader /\ [][NextLoader]_vars

\* The background thread runs while it is not blocked in recv(), and join()
\* returns once it has exited.
SpecLoaderFair ==
    /\ InitLoader /\ [][NextLoader]_vars
    /\ WF_vars(BgRecv) /\ WF_vars(BgPut) /\ WF_vars(Join)


(***************************************************************************)
(* Properties of the PGN filter                                            *)
(***************************************************************************)
EndHeadersStep == kind = "loader" /\ main.pc = "end_headers" /\ main'.pc # "end_headers"
Aborts == main'.pc = "panicked"
Admits == main'.pc # "panicked" /\ ~importer'.skip
WhiteRating == unwrap_or(importer.current.white.rating, 0)
BlackRating == unwrap_or(importer.current.black.rating, 0)
SwappedColours(current) ==
    [current EXCEPT !.white.rating = current.black.rating,
                    !.black.rating = current.white.rating]

\* C21: end_headers admits a game only if both ratings are at least 1501 and
\* |white - black| < 150; the verdict is the same with the colours' ratings
\* swapped; there is no underflow or abort when black is rated higher.
C21_FilterByRatings ==
    [][EndHeadersStep =>
          /\ Admits => /\ Min(WhiteRating, BlackRating) >= 1501
                       /\ AbsDiff(WhiteRating, BlackRating) < 150
          /\ BlackRating > WhiteRating => ~Aborts
          /\ LET swapped == EndHeadersEval(SwappedColours(importer.current),
                                           importer.skip, pgns.build)
             IN  /\ swapped.panic = Aborts
                 /\ swapped.accept = Admits]_vars

SpeedOfCurrent == unwrap_or(importer.current.speed, "Correspondence")
IsStandard == importer.current.variant \in {None, Some("Standard")}
AverageOfCurrent == (WhiteRating + BlackRating) \div 2
\* the acceptance probability of the speed and rating tier, in percent
AcceptanceProbability ==
    IF IsStandard /\ SpeedOfCurrent \in {"Rapid", "Blitz"} /\ AverageOfCurrent >= 1600
    THEN 100 ELSE 0

\* C22: end_headers admits a game only if it has an id and hash32(id) mod 100 is
\* below the acceptance probability; a game whose probability is 0 is never
\* admitted.
C22_AdmittedBySampling ==
    [][(EndHeadersStep /\ Admits) =>
          /\ importer.current.id # None
          /\ AcceptanceProbability # 0
          /\ RemI32(java_hash_code(importer.current.id[1]), 100)
                < AcceptanceProbability]_vars

HasHeader(game, key, value) ==
    \E i \in 1..Len(game.headers) :
        game.headers[i][1] = key /\ game.headers[i][2] = value
HasUnrecognizedResult(game) ==
    \E i \in 1..Len(game.headers) :
        /\ game.headers[i][1] = "Result"
        /\ game.headers[i][2] \notin {"1-0", "0-1", "1/2-1/2"}
HasBot(game) == HasHeader(game, "WhiteTitle", "BOT") \/ HasHeader(game, "BlackTitle", "BOT")

\* every batch made so far, oldest first: shipped, in the background thread's
\* hands, queued; and the batch being filled
InHand == IF bg.pc = "put" THEN <<bg.batch>> ELSE <<>>
AllSent == shipped \o InHand \o chan.queue
RECURSIVE GamesFrom(_, _)
GamesFrom(batches, i) ==
    IF i > Len(batches) THEN <<>> ELSE batches[i].games \o GamesFrom(batches, i + 1)
BatchedGames == GamesFrom(AllSent, 1) \o importer.batch
SourceOf(game) == pgns.files[game.src[1][1]][game.src[1][2]]

RECURSIVE VisitHeaders(_, _, _)
VisitHeaders(imp, headers, i) ==
    IF i > Len(headers) THEN imp
    ELSE VisitHeaders(VisitHeader(imp, headers[i][1], headers[i][2]), headers, i + 1)
\* the verdict on a game that is the first one an Importer sees
SkippedAlone(game) ==
    LET imp == VisitHeaders(ImporterNew(0), game.headers, 1)
    IN  ~EndHeadersEval(imp.current, imp.skip, pgns.build).accept

\* C23: no game with a BOT title or an unrecognized Result is ever in a batch;
\* begin_game resets the skip flag, so that every game gets the verdict it
\* would get as the first game.
C23_BotsAndBadResultsSkipped ==
    /\ [](kind = "loader" =>
            LET games == BatchedGames
            IN  \A i \in 1..Len(games) :
                   /\ ~HasBot(SourceOf(games[i]))
                   /\ ~HasUnrecognizedResult(SourceOf(games[i])))
    /\ [][kind = "loader" =>
            /\ (main.pc = "begin_game" /\ main'.pc # "begin_game") => ~importer'.skip
            /\ (main.pc = "end_game" /\ main'.pc # "end_game")
                  => importer.skip = SkippedAlone(GameAt(main))]_vars

\* A game that follows a game of a bot and a game without a result has been
\* shipped, and neither of those two has.
C23_Witness ==
    /\ kind = "loader"
    /\ main.pc = "done"
    /\ pgns.files # <<>>
    /\ Len(pgns.files[1]) = 3
    /\ pgns.files[1][1] = BotGame
    /\ pgns.files[1][2] = NoResultGame
    /\ pgns.files[1][3] = GoodGame
    /\ \E i \in 1..Len(shipped) :
          \E j \in 1..Len(shipped[i].games) : shipped[i].games[j].src = Some(<<1, 3>>)
    /\ \A i \in 1..Len(shipped) :
          \A j \in 1..Len(shipped[i].games) :
              shipped[i].games[j].src \in {Some(<<1, 3>>), Some(<<2, 1>>)}

\* the low 16 bits of h * 31 + code point, seeded at 0
RECURSIVE PolyLow16(_, _, _)
PolyLow16(s, i, h) ==
    IF i > Len(s) THEN h ELSE PolyLow16(s, i + 1, (h * 31 + CodePoint(s[i])) % 65536)

\* C24: java_hash_code is h <- h * 31 + code point from 0 in wrapping 32-bit
\* two's-complement arithmetic, with the four values of test_java_hash_code.
C24_JavaHashCode ==
    (kind = "loader" /\ sel # NoCall) =>
        /\ sel.out >= -2147483647 - 1 /\ sel.out <= 2147483647
        /\ sel.out % 65536 = PolyLow16(sel.s, 1, 0)
        /\ sel.s = IdDXZdUVdv => sel.out = 1714524881
        /\ sel.s = Id4mn73Yni => sel.out = 1587086275
        /\ sel.s = IdVFa7wmDN => sel.out = 90055046
        /\ sel.s = IdrvSvQdIe => sel.out = 950841078

C24_Witness ==
    /\ kind = "loader"
    /\ sel # NoCall
    /\ sel.s = IdrvSvQdIe
    /\ sel.out = 950841078
    /\ main.pc = "done"


(***************************************************************************)
(* Properties of the batches and the channel                               *)
(***************************************************************************)
IsPrefix(a, b) == Len(a) <= Len(b) /\ SubSeq(b, 1, Len(a)) = a
SendingSideClosed == kind = "loader" /\ main.pc \in {"join", "done"}
Terminated ==
    /\ main.pc = "done"
    /\ bg.pc = "exited"
    /\ chan.queue = <<>>
    /\ shipped = AllSent

\* C25: once the last file is read and the sending side is closed, the
\* background thread ships every batch that is queued and then exits, and main
\* joins it and terminates; no batch that was sent is lost.
C25_DrainsThenExits ==
    /\ [][SendingSideClosed => AllSent' = AllSent]_vars
    /\ SendingSideClosed ~> Terminated

\* The sending side is closed while the channel is full and the background
\* thread is shipping a batch.
C25_Witness ==
    /\ kind = "loader"
    /\ main.pc = "join"
    /\ Len(chan.queue) = ChannelCapacity
    /\ bg.pc = "put"

SrcLess(a, b) == a[1] < b[1] \/ (a[1] = b[1] /\ a[2] < b[2])
Last(q) == q[Len(q)]
EndGameStep == kind = "loader" /\ main.pc = "end_game" /\ main'.pc # "end_game"
\* the games are batched in reading order, each at most once
InReadingOrder ==
    LET games == BatchedGames
    IN  \A i \in 1..(Len(games) - 1) : SrcLess(games[i].src[1], games[i + 1].src[1])
\* an admitted game goes to the end of the batch, which is sent whole or kept
PlacedInBatch ==
    /\ (EndGameStep /\ ~importer.skip) =>
          LET batch == Append(importer.batch, importer.current) IN
          /\ importer.current.src = Some(<<main.file, main.game>>)
          /\ \/ importer'.batch = batch /\ AllSent' = AllSent
             \/ importer'.batch = <<>> /\ AllSent' = Append(AllSent, Last(AllSent'))
                                       /\ Last(AllSent').games = batch
    /\ IsPrefix(AllSent, AllSent')
    /\ importer'.batch # importer.batch =>
          \/ EndGameStep /\ ~importer.skip
          \/ AllSent' = Append(AllSent, Last(AllSent')) /\ Last(AllSent').games = importer.batch
                                                        /\ importer'.batch = <<>>

\* C26 (as stated): every admitted game is placed in exactly one batch, no batch
\* holds more than batch_size games, the batches are handed over in the order
\* the games were read, and at most 50 batches are queued at any time.
C26_Batching ==
    /\ [](kind = "loader" =>
            /\ Len(chan.queue) <= 50
            /\ \A i \in 1..Len(AllSent) : Len(AllSent[i].games) <= pgns.batch_size
            /\ Len(importer.batch) <= pgns.batch_size
            /\ InReadingOrder)
    /\ [][kind = "loader" => PlacedInBatch]_vars

\* C26 (amended): the same, with batches of at most max(batch_size, 1) games:
\* with a batch size of 0 every admitted game is sent in a batch of its own.
C26_BatchingAtLeastOne ==
    /\ [](kind = "loader" =>
            /\ Len(chan.queue) <= 50
            /\ \A i \in 1..Len(AllSent) : Len(AllSent[i].games) <= Max(pgns.batch_size, 1)
            /\ Len(importer.batch) <= Max(pgns.batch_size, 1)
            /\ InReadingOrder)
    /\ [][kind = "loader" => PlacedInBatch]_vars

\* The parser waits with an admitted game and a full batch while 50 batches are
\* queued.
C26_Witness ==
    /\ kind = "loader"
    /\ main.pc = "end_game"
    /\ ~importer.skip
    /\ Len(importer.batch) + 1 >= pgns.batch_size
    /\ Len(chan.queue) = 50
    /\ ~ENABLED EndGame

(***************************************************************************)
(* PlayerEntry::prepare                                                    *)
(***************************************************************************)
\* PlayerQueryFilter: speeds and modes are Option<Vec<_>>.
\* lines 190-202: the selected cells of one move, speeds outermost
PlayerPrepareCells(e, filter, uci) ==
    Flatten([si \in 1..Len(SpeedALL) |->
        IF ~(filter.speeds = None \/ SpeedALL[si] \in filter.speeds[1]) THEN <<>>
        ELSE Flatten([mi \in 1..Len(ModeALL) |->
            IF ~(filter.modes = None \/ ModeALL[mi] \in filter.modes[1]) THEN <<>>
            ELSE LET group == e.sub_entries[uci][SpeedALL[si]][ModeALL[mi]]
                 IN  << [mode |-> ModeALL[mi], speed |-> SpeedALL[si],
                         group |-> group] >>])])

PlayerPrepareGames(cells, uci) ==
    Flatten([c \in 1..Len(cells) |->
        [g \in 1..Len(cells[c].group.games) |->
            [mode |-> cells[c].mode, speed |-> cells[c].speed,
             idx |-> cells[c].group.games[g][1], uci |-> uci,
             game |-> cells[c].group.games[g][2]]]])

PlayerPrepareMove(e, filter, uci) ==
    LET cells == PlayerPrepareCells(e, filter, uci)
        stats == SumStats(cells)
        games == PlayerPrepareGames(cells, uci)
        latest_game == LatestGame(games)
    IN  [uci |-> uci, stats |-> stats, games |-> games,
         pushed |-> ~StatsIsEmpty(stats) \/ latest_game # None,
         row |-> [uci |-> uci, stats |-> stats,
                  average_opponent_rating |-> StatsAverageRating(stats),
                  game |-> IF latest_game # None /\ StatsIsSingle(stats)
                           THEN Some(latest_game[1].game) ELSE None]]

\* Variant of the player's recent games that keeps one game more.
PlayerTakeOneMore(recent) == Min(Len(recent), MAX_PLAYER_GAMES + 1)
\* .take(MAX_PLAYER_GAMES as usize)
PlayerTake(recent) == Min(Len(recent), MAX_PLAYER_GAMES)

\* `order` is the iteration order of the move map.
PlayerPrepare(e, filter, order) ==
    LET per_move == [i \in 1..Len(order) |-> PlayerPrepareMove(e, filter, order[i])]
        moves == Flatten([i \in 1..Len(order) |->
                    IF per_move[i].pushed THEN <<per_move[i].row>> ELSE <<>>])
        total == SumStats([i \in 1..Len(moves) |-> [group |-> [stats |-> moves[i].stats]]])
        collected == Flatten([i \in 1..Len(order) |-> per_move[i].games])
        recent == StableSort(collected,
                             [i \in 1..Len(collected) |-> RecentGamesOrder(collected[i])])
        MovesOrder(row) == <<-StatsTotal(row.stats)>>
    IN  [total |-> total,
         moves |-> StableSort(moves, [i \in 1..Len(moves) |-> MovesOrder(moves[i])]),
         top_games |-> <<>>,
         recent_games |->
            [i \in 1..PlayerTake(recent) |-> <<recent[i].uci, recent[i].game>>]]

(***************************************************************************)
(* Queries on entries built from single-game increments                    *)
(***************************************************************************)
LichessGame(c, uci, speed, outcome, rating) ==
    [id |-> GameIdOf(c), uci |-> uci, speed |-> speed, outcome |-> outcome,
     mover |-> rating, opponent |-> rating]
PlayerGame(c, uci, speed, mode, outcome, opponent) ==
    [id |-> GameIdOf(c), uci |-> uci, speed |-> speed, mode |-> mode,
     outcome |-> outcome, opponent |-> opponent]

\* Three moves, several speeds and rating groups, eight games that qualify as
\* top games for Group2200, one Correspondence game among the highest rated.
LichessMixed ==
    << LichessGame(0, E2E4, "Blitz", "white", 1600),
       LichessGame(1, E2E4, "Blitz", "draw", 2200),
       LichessGame(2, D2D4, "Correspondence", "white", 2500),
       LichessGame(3, E2E4, "Rapid", "black", 2500),
       LichessGame(4, D2D4, "Blitz", "white", 2800),
       LichessGame(5, E2E4, "Blitz", "draw", 3200),
       LichessGame(6, G1F3, "Classical", "white", 2200),
       LichessGame(7, E2E4, "Blitz", "black", 2200),
       LichessGame(8, D2D4, "Rapid", "draw", 2000),
       LichessGame(9, E2E4, "Bullet", "white", 2500),
       LichessGame(10, G1F3, "Blitz", "black", 2200),
       LichessGame(11, E2E4, "Blitz", "white", 1000) >>

\* One game in each rating group that select can return, for e2e4, followed by
\* three more games of the lower groups.
LichessOnePerGroup ==
    << LichessGame(0, E2E4, "Rapid", "white", 1500),
       LichessGame(1, E2E4, "Rapid", "draw", 1600),
       LichessGame(2, E2E4, "Rapid", "black", 1800),
       LichessGame(3, E2E4, "Rapid", "white", 2000),
       LichessGame(4, E2E4, "Rapid", "draw", 2200),
       LichessGame(5, E2E4, "Rapid", "black", 2500),
       LichessGame(6, E2E4, "Rapid", "white", 2800),
       LichessGame(7, D2D4, "Rapid", "white", 1600),
       LichessGame(8, D2D4, "Rapid", "draw", 1800),
       LichessGame(9, G1F3, "Rapid", "draw", 2000) >>

PlayerMixed ==
    << PlayerGame(0, E2E4, "Bullet", "Rated", "white", 1600),
       PlayerGame(1, D2D4, "Blitz", "Casual", "draw", 1500),
       PlayerGame(2, E2E4, "Blitz", "Rated", "black", 1800),
       PlayerGame(3, G1F3, "Correspondence", "Rated", "white", 2000),
       PlayerGame(4, E2E4, "Blitz", "Rated", "white", 1700),
       PlayerGame(5, D2D4, "Rapid", "Rated", "black", 1900),
       PlayerGame(6, E2E4, "Bullet", "Casual", "draw", 1650),
       PlayerGame(7, E2E4, "Blitz", "Rated", "draw", 2100),
       PlayerGame(8, D2D4, "Blitz", "Rated", "white", 1750),
       PlayerGame(9, G1F3, "Blitz", "Casual", "black", 1550) >>

QueryScripts(k) ==
    IF k = "lichess" THEN {LichessMixed, LichessOnePerGroup} ELSE {PlayerMixed}

LichessQueryFilters ==
    [speeds : {None, Some({"Blitz"}), Some({"Blitz", "Rapid", "Correspondence"})},
     ratings : {None, Some({"Group2000", "Group2200"}),
                Some({"Group2200", "Group2500", "Group2800", "Group3200"})},
     top_group : {None, Some("Group2200"), Some("Group2500"), Some("GroupLow")}]

PlayerQueryFilters ==
    [speeds : {None, Some({"Blitz"}), Some({"Bullet", "Blitz", "Correspondence"})},
     modes : {None, Some({"Rated"}), Some({"Casual"})}]

InitQuery ==
    /\ NoLoader /\ NoStatus
    /\ kind \in {"lichess", "player"}
    /\ entry = EntryDefault
    /\ operand = EntryDefault
    /\ created = <<>>
    /\ last = NoOp
    /\ sel = NoCall
    /\ games_db = <<>> /\ entries_db = <<>> /\ pc = <<>> /\ req = <<>>
    /\ ret = <<>> /\ hist = <<>> /\ ncalls = 0

\* The next single-game increment of a script is merged into the entry.
QueryMerge(script) ==
    /\ sel = NoCall
    /\ Len(created) < Len(script)
    /\ SubSeq(script, 1, Len(created)) = created
    /\ LET g == script[Len(created) + 1]
           r == ExtendFromReader(kind, entry, Write(kind, NewSingle(kind, g), <<g.uci>>))
       IN  /\ entry' = r.entry
           /\ last' = [op |-> "merge", err |-> r.err]
           /\ created' = Append(created, g)
    /\ UNCHANGED <<kind, operand, importVars, sel, loaderVars, statusVars>>

LichessQuery(filter, order) ==
    /\ kind = "lichess"
    /\ sel = NoCall
    /\ sel' = [fn |-> "prepare", filter |-> filter,
               out |-> LichessPrepare(entry, filter, order)]
    /\ UNCHANGED <<codecVars, importVars, loaderVars, statusVars>>

PlayerQuery(filter, order) ==
    /\ kind = "player"
    /\ sel = NoCall
    /\ sel' = [fn |-> "prepare", filter |-> filter,
               out |-> PlayerPrepare(entry, filter, order)]
    /\ UNCHANGED <<codecVars, importVars, loaderVars, statusVars>>

NextQuery ==
    \/ \E script \in QueryScripts(kind) : QueryMerge(script)
    \/ \E filter \in LichessQueryFilters, order \in Orderings(UcisOf(entry)) :
            LichessQuery(filter, order)
    \/ \E filter \in PlayerQueryFilters, order \in Orderings(UcisOf(entry)) :
            PlayerQuery(filter, order)

SpecQuery == InitQuery /\ [][NextQuery]_vars


(***************************************************************************)
(* Claims about prepare                                                    *)
(***************************************************************************)
QueryDone == sel # NoCall /\ sel.fn = "prepare"

\* Every game of the entry with the cell it is stored in.
EntryGames ==
    UNION { UNION { { [uci |-> uci, speed |-> cell[1], part |-> cell[2],
                       idx |-> GamesOf(entry, uci, cell)[i][1],
                       game |-> GamesOf(entry, uci, cell)[i][2]] :
                        i \in 1..Len(GamesOf(entry, uci, cell)) } :
                    cell \in Cells(kind) } :
            uci \in UcisOf(entry) }

\* The cell is selected by the filter of the query.
Allowed(speed, part) ==
    /\ sel.filter.speeds = None \/ speed \in sel.filter.speeds[1]
    /\ IF kind = "lichess"
       THEN sel.filter.ratings = None \/ part \in sel.filter.ratings[1]
       ELSE sel.filter.modes = None \/ part \in sel.filter.modes[1]

AllowedGames == {g \in EntryGames : Allowed(g.speed, g.part)}

\* The games that qualify as top games.
TopCandidates ==
    {g \in AllowedGames :
        /\ RatingGroupOrd(g.part) >= RatingGroupOrd(sel.filter.top_group[1])
        /\ g.speed # "Correspondence"}

\* Rating groups from Group2500 upwards rank alike.
TopClass(g) == Min(RatingGroupOrd(g.part), RatingGroupOrd("Group2500"))
TopBefore(h, g) ==
    TopClass(h) > TopClass(g) \/ (TopClass(h) = TopClass(g) /\ h.idx > g.idx)

\* C27: with a top_group threshold, top_games holds at most MAX_TOP_GAMES = 4
\* games, each from a filter-selected cell with rating group >= top_group and
\* speed other than Correspondence, and they are the first such games in the
\* order (min(rating group, Group2500) descending, game index descending);
\* without a threshold top_games is empty.
C27_TopGames ==
    (QueryDone /\ kind = "lichess") =>
        IF sel.filter.top_group = None THEN sel.out.top_games = <<>>
        ELSE /\ Len(sel.out.top_games) = Min(4, Cardinality(TopCandidates))
             /\ \A i \in 1..Len(sel.out.top_games) :
                    \E g \in TopCandidates :
                        /\ sel.out.top_games[i] = <<g.uci, g.game>>
                        /\ Cardinality({h \in TopCandidates : TopBefore(h, g)}) = i - 1

\* More than four games qualify, a Group2500 game precedes an older Group3200
\* game, and a Correspondence game of a qualifying group is passed over.
C27_Witness ==
    /\ QueryDone /\ kind = "lichess"
    /\ sel.filter.top_group = Some("Group2200")
    /\ Cardinality(TopCandidates) > 4
    /\ Len(sel.out.top_games) = 4
    /\ \E g, h \in TopCandidates :
          /\ g.part = "Group2500" /\ h.part = "Group3200" /\ g.idx > h.idx
          /\ sel.out.top_games[1] = <<g.uci, g.game>>
          /\ sel.out.top_games[2] = <<h.uci, h.game>>
    /\ \E g \in AllowedGames :
          /\ g.speed = "Correspondence" /\ g.part = "Group2500"
          /\ \A i \in 1..4 : sel.out.top_games[i][2] # g.game

\* C28: recent_games holds only games of cells allowed by the filter, never a
\* game that is in top_games, in strictly descending order of game index, and
\* at most 8 - |top_games| of them; PlayerEntry::prepare returns no top games
\* and at most MAX_PLAYER_GAMES = 8 recent games.
C28_RecentGames ==
    QueryDone =>
        /\ \A i \in 1..Len(sel.out.recent_games) :
              /\ \E g \in AllowedGames : sel.out.recent_games[i] = <<g.uci, g.game>>
              /\ \A j \in 1..Len(sel.out.top_games) :
                    sel.out.top_games[j][2] # sel.out.recent_games[i][2]
        /\ \A i \in 1..(Len(sel.out.recent_games) - 1) :
              \E g, h \in AllowedGames :
                  /\ sel.out.recent_games[i] = <<g.uci, g.game>>
                  /\ sel.out.recent_games[i + 1] = <<h.uci, h.game>>
                  /\ g.idx > h.idx
        /\ Len(sel.out.recent_games) <= 8 - Len(sel.out.top_games)
        /\ Len(sel.out.top_games) + Len(sel.out.recent_games) <= 8
        /\ kind = "player" =>
              /\ sel.out.top_games = <<>>
              /\ Len(sel.out.recent_games) <= MAX_PLAYER_GAMES

\* Twelve allowed games: four are top games, four of the other eight are
\* returned as recent games.
C28_Witness ==
    /\ QueryDone /\ kind = "lichess"
    /\ Cardinality(AllowedGames) = 12
    /\ Len(sel.out.top_games) = 4
    /\ Len(sel.out.recent_games) = 4

\* A player entry with more than eight allowed games is queried.
C28_WitnessPlayer ==
    /\ QueryDone /\ kind = "player"
    /\ Cardinality(AllowedGames) > MAX_PLAYER_GAMES
    /\ Len(sel.out.recent_games) = MAX_PLAYER_GAMES

\* The sum of one field of the stats over the allowed cells of a move.
AllowedSum(uci, field) ==
    SumSeq([si \in 1..6 |->
        SumSeq([pi \in 1..Len(PartALL(kind)) |->
            IF Allowed(SpeedALL[si], PartALL(kind)[pi])
            THEN entry.sub_entries[uci][SpeedALL[si]][PartALL(kind)[pi]].stats[field]
            ELSE 0])])
AllowedStats(uci) == [field \in DOMAIN StatsDefault |-> AllowedSum(uci, field)]
AllowedGamesOf(uci) == {g \in AllowedGames : g.uci = uci}

\* The moves whose allowed cells hold stats or games.
MovesWithData ==
    {uci \in UcisOf(entry) :
        StatsTotal(AllowedStats(uci)) > 0 \/ AllowedGamesOf(uci) # {}}

\* C29: prepare returns one row for each move whose filter-selected cells hold
\* stats or games, sorted by stats.total() descending; a row's stats are the
\* sum over the allowed cells, the response total is the sum of the rows'
\* stats; a row carries a game id only when its stats count exactly one game,
\* and then it is the game with the highest index among the allowed cells of
\* that move.
C29_MoveRows ==
    QueryDone =>
        /\ {sel.out.moves[i].uci : i \in 1..Len(sel.out.moves)} = MovesWithData
        /\ Len(sel.out.moves) = Cardinality(MovesWithData)
        /\ \A i \in 1..(Len(sel.out.moves) - 1) :
              StatsTotal(sel.out.moves[i].stats) >= StatsTotal(sel.out.moves[i + 1].stats)
        /\ \A i \in 1..Len(sel.out.moves) :
              /\ sel.out.moves[i].stats = AllowedStats(sel.out.moves[i].uci)
              /\ sel.out.moves[i].game # None =>
                    /\ StatsTotal(sel.out.moves[i].stats) = 1
                    /\ \E g \in AllowedGamesOf(sel.out.moves[i].uci) :
                          /\ sel.out.moves[i].game = Some(g.game)
                          /\ \A h \in AllowedGamesOf(sel.out.moves[i].uci) : h.idx <= g.idx
        /\ \A field \in DOMAIN StatsDefault :
              sel.out.total[field] =
                  SumSeq([i \in 1..Len(sel.out.moves) |-> sel.out.moves[i].stats[field]])

\* Three rows with different totals, one of them with a single game and its id,
\* while other games of that move lie in cells the filter excludes.
C29_Witness ==
    /\ QueryDone
    /\ Len(sel.out.moves) = 3
    /\ StatsTotal(sel.out.moves[1].stats) > StatsTotal(sel.out.moves[2].stats)
    /\ StatsTotal(sel.out.moves[2].stats) > StatsTotal(sel.out.moves[3].stats)
    /\ sel.out.moves[3].game # None
    /\ sel.out.moves[1].game = None
    /\ \E g \in EntryGames : g.uci = sel.out.moves[3].uci /\ g \notin AllowedGames

(***************************************************************************)
(* Size of a single-game entry                                             *)
(***************************************************************************)
\* The first single of test_lichess_entry or test_merge_player has been
\* written and read into the empty entry.
SingleWritten ==
    /\ last = [op |-> "merge", err |-> "none"]
    /\ created = IF kind = "lichess" THEN <<TestA>> ELSE <<PlayerA>>
SingleBlob == Write(kind, NewSingle(kind, created[1]), <<created[1].uci>>)

\* C30: the encoding of the single-game entry of test_lichess_entry (g1f3,
\* Blitz, aaaaaaaa, draw, 2000, 2200) or of test_merge_player is exactly
\* SIZE_HINT = 13 bytes long: the 2-byte move, one header byte, the stats, the
\* 1-byte game index 0 and the 8-byte game id, with no End marker.
C30_SingleEntrySize ==
    SingleWritten =>
        /\ Len(SingleBlob) = SIZE_HINT
        /\ \E header \in 0..255 :
              SingleBlob = WriteUci(created[1].uci) \o <<header>>
                              \o StatsWrite(GroupAt(entry, created[1].uci,
                                    CHOOSE cell \in Cells(kind) :
                                        GamesOf(entry, created[1].uci, cell) # <<>>).stats)
                              \o <<0>> \o WriteGameId(created[1].id)

(***************************************************************************)
(* Headers written and read back; entries written, read back, merged       *)
(***************************************************************************)
\* Largest game count of a lichess header that is written and read back.
MaxNumGames == 130
\* Largest game count of a player header that is written and read back.
MaxPlayerNumGames == 17

HeaderWrite(k, h) == IF k = "lichess" THEN LichessHeaderWrite(h) ELSE PlayerHeaderWrite(h)
HeaderRead(k, b, i) == IF k = "lichess" THEN LichessHeaderRead(b, i) ELSE PlayerHeaderRead(b, i)

SampleHeadersOf(k) ==
    {HeaderEnd} \cup
    {HeaderGroup(speed, part, n) :
        speed \in Speeds, part \in Parts(k),
        n \in 0..(IF k = "lichess" THEN MaxNumGames ELSE MaxPlayerNumGames)}

\* Nine games of one cell of e2e4 and one game of d2d4.
LichessCrowded ==
    [i \in 1..10 |->
        LichessGame(i - 1, IF i = 4 THEN D2D4 ELSE E2E4, "Blitz",
                    IF i % 2 = 0 THEN "white" ELSE "draw", 2200)]
PlayerCrowded ==
    [i \in 1..10 |->
        PlayerGame(i - 1, IF i = 4 THEN D2D4 ELSE E2E4, "Blitz", "Rated",
                   IF i % 2 = 0 THEN "white" ELSE "draw", 1700)]
HeaderScripts(k) ==
    IF k = "lichess" THEN {LichessCrowded, LichessMixed} ELSE {PlayerCrowded, PlayerMixed}

InitHeaders ==
    /\ NoLoader /\ NoStatus
    /\ kind \in {"lichess", "player"}
    /\ entry = EntryDefault
    /\ operand = EntryDefault
    /\ created = <<>>
    /\ last = NoOp
    /\ sel = NoCall
    /\ games_db = <<>> /\ entries_db = <<>> /\ pc = <<>> /\ req = <<>>
    /\ ret = <<>> /\ hist = <<>> /\ ncalls = 0

\* Headers are written and read back before any game is merged.
HeadersToTry == IF created = <<>> /\ sel = NoCall THEN SampleHeadersOf(kind) ELSE {}

\* header.write(&mut writer); Header::read(&mut reader)
HeaderRoundtrip(h) ==
    /\ sel = NoCall
    /\ created = <<>>
    /\ sel' = [fn |-> "header", h |-> h, bytes |-> HeaderWrite(kind, h),
               out |-> HeaderRead(kind, HeaderWrite(kind, h), 1)]
    /\ UNCHANGED <<codecVars, importVars, loaderVars, statusVars>>

\* A move section with one group that announces two games, the second with a
\* game index that takes two varint bytes; `more` announces four games with a
\* count varint.
DamagedPart(k) == IF k = "lichess" THEN "Group2200" ELSE "Rated"
DamagedHead(k) ==
    WriteUci(E2E4) \o HeaderWrite(k, HeaderGroup("Blitz", DamagedPart(k), 2))
DamagedStats == StatsWrite([white |-> 1, draws |-> 1, black |-> 0, rating_sum |-> 4400])
DamagedFirstGame == WriteUint(0) \o WriteGameId(GameIdOf(0))
DamagedSecondIdx == WriteUint(300)
DamagedSecondId == WriteGameId(GameIdOf(1))
DamagedSection ==
    [k \in {"lichess", "player"} |->
        DamagedHead(k) \o DamagedStats \o DamagedFirstGame
            \o DamagedSecondIdx \o DamagedSecondId]

\* The input of extend_from_reader: where it ends or what is wrong with it.
DamagedBytes(k, where, cut) ==
    CASE where = "after_games" -> DamagedSection[k]
      [] where = "end_then_uci" ->
            DamagedSection[k] \o HeaderWrite(k, HeaderEnd) \o WriteUci(D2D4)
                \o HeaderWrite(k, HeaderGroup("Rapid", DamagedPart(k), 1))
                \o DamagedStats \o WriteUint(5) \o WriteGameId(GameIdOf(2))
      [] where = "in_stats" -> DamagedHead(k) \o SubSeq(DamagedStats, 1, cut)
      [] where = "in_game_idx" ->
            DamagedHead(k) \o DamagedStats \o DamagedFirstGame
                \o SubSeq(DamagedSecondIdx, 1, cut)
      [] where = "in_game_id" ->
            DamagedHead(k) \o DamagedStats \o DamagedFirstGame \o DamagedSecondIdx
                \o SubSeq(DamagedSecondId, 1, cut)
      [] where = "bad_speed" -> WriteUci(E2E4) \o <<7 + 8 * cut>>
      [] where = "in_uci" -> DamagedSection[k] \o HeaderWrite(k, HeaderEnd) \o <<cut>>
      [] where = "in_header" ->
            WriteUci(E2E4) \o <<HeaderWrite("lichess", HeaderGroup("Blitz", "Group2200", 4))[1]>>

DamagedInputs ==
    [where : {"after_games", "end_then_uci", "in_header"}, cut : {0}]
    \cup [where : {"in_stats"}, cut : 0..(Len(DamagedStats) - 1)]
    \cup [where : {"in_game_idx"}, cut : 0..(Len(DamagedSecondIdx) - 1)]
    \cup [where : {"in_game_id"}, cut : 0..7]
    \cup [where : {"bad_speed"}, cut : 0..31]
    \cup [where : {"in_uci"}, cut : {12}]

\* Inputs are read into the empty entry or into an entry of one game.
DamageToTry ==
    IF sel = NoCall /\ Len(created) <= 1
    THEN (IF kind = "lichess" THEN DamagedInputs
          ELSE {d \in DamagedInputs : d.where # "in_header"})
    ELSE {}

\* entry.extend_from_reader(&mut Cursor::new(bytes))
ReadDamaged(d) ==
    /\ sel = NoCall
    /\ LET bytes == DamagedBytes(kind, d.where, d.cut)
           r == ExtendFromReader(kind, entry, bytes)
       IN  /\ sel' = [fn |-> "read", where |-> d.where, cut |-> d.cut,
                      bytes |-> bytes, err |-> r.err]
           /\ entry' = r.entry
           /\ last' = [op |-> "read", err |-> r.err]
    /\ UNCHANGED <<kind, operand, created, importVars, loaderVars, statusVars>>

NextHeaders ==
    \/ \E h \in HeadersToTry : HeaderRoundtrip(h)
    \/ \E script \in HeaderScripts(kind) : QueryMerge(script)
    \/ \E order \in Orderings(UcisOf(entry)) : Roundtrip(order)
    \/ \E d \in DamageToTry : ReadDamaged(d)

SpecHeaders == InitHeaders /\ [][NextHeaders]_vars

(***************************************************************************)
(* Claims about the headers                                                *)
(***************************************************************************)
HeaderTried == sel # NoCall /\ sel.fn = "header"

\* The cells of the entry that write emits a group for.
WrittenCells ==
    {c \in UcisOf(entry) \X Cells(kind) :
        \/ GamesOf(entry, c[1], c[2]) # <<>>
        \/ ~StatsIsEmpty(GroupAt(entry, c[1], c[2]).stats)}

\* The bytes write emits for the group of a cell.
GroupBytes(c) ==
    IF kind = "lichess"
    THEN LichessWriteGroup(c[2][1], c[2][2], GroupAt(entry, c[1], c[2]))
    ELSE PlayerWriteGroup(c[2][1], c[2][2], GroupAt(entry, c[1], c[2]))

\* The group's bytes are a header for the cell, the stats and exactly as many
\* game records as the header announces; n is the number of games emitted.
GroupWellFormed(c, n) ==
    LET b == GroupBytes(c)
        h == HeaderRead(kind, b, 1)
    IN  /\ h.err = "none"
        /\ h.val = HeaderGroup(c[2][1], c[2][2], n)
        /\ LET st == StatsRead(b, h.pos)
           IN  /\ st.err = "none"
               /\ LET gs == ReadGames(b, st.pos, 0, h.val.num_games, None, <<>>)
                  IN  /\ gs.err = "none"
                      /\ gs.pos = Len(b) + 1
                      /\ Len(gs.games) = n

\* C31: a lichess Group header that is written reads back as the same header;
\* its first byte carries the speed in bits 0-2 (never 0), the rating group in
\* bits 3-5 and min(3, n) in bits 6-7, and a varint of n follows exactly when
\* n >= 3; End is the single byte 0 and reads back as End, never as a Group;
\* in every group LichessEntry::write emits, the announced count is the number
\* of game records that follow.
C31_LichessHeader ==
    kind = "lichess" =>
        /\ HeaderTried =>
              /\ sel.out = Got(sel.h, Len(sel.bytes) + 1)
              /\ IF sel.h.tag = "End" THEN sel.bytes = <<0>>
                 ELSE /\ sel.bytes[1] % 8 = IndexOf(SpeedALL, sel.h.speed)
                      /\ sel.bytes[1] % 8 # 0
                      /\ (sel.bytes[1] \div 8) % 8 = IndexOf(RatingGroupALL, sel.h.part) - 1
                      /\ sel.bytes[1] \div 64 = Min(3, sel.h.num_games)
                      /\ (Len(sel.bytes) > 1) <=> (sel.h.num_games >= 3)
                      /\ sel.h.num_games >= 3 => Tail(sel.bytes) = WriteUint(sel.h.num_games)
        /\ \A c \in WrittenCells :
              GroupWellFormed(c, Min(Len(GamesOf(entry, c[1], c[2])), MAX_LICHESS_GAMES))

\* A header with a game count that needs a two-byte varint.
C31_Witness ==
    /\ kind = "lichess" /\ HeaderTried
    /\ sel.h.tag = "Group" /\ sel.h.num_games = MaxNumGames
    /\ Len(sel.bytes) = 3

\* An entry with a cell of nine games has been written and read back.
C31_WitnessWrite ==
    /\ kind = "lichess" /\ last.op = "roundtrip"
    /\ \E c \in WrittenCells :
          /\ Len(GamesOf(entry, c[1], c[2])) = MAX_LICHESS_GAMES
          /\ StatsTotal(GroupAt(entry, c[1], c[2]).stats) = 9

\* C32: a player Group header with num_games in 0..15 is written as one byte
\* (speed in bits 0-2, mode in bit 3, num_games in bits 4-7) and reads back as
\* the same header, End is the byte 0 and reads back as End; every header
\* PlayerEntry::write emits has num_games <= MAX_PLAYER_GAMES = 8, equal to
\* the number of game records that follow.
C32_PlayerHeader ==
    kind = "player" =>
        /\ (HeaderTried /\ sel.h.num_games <= 15) =>
              /\ sel.out = Got(sel.h, 2)
              /\ Len(sel.bytes) = 1
              /\ IF sel.h.tag = "End" THEN sel.bytes = <<0>>
                 ELSE /\ sel.bytes[1] % 8 = IndexOf(SpeedALL, sel.h.speed)
                      /\ (sel.bytes[1] \div 8) % 2 = (IF sel.h.part = "Rated" THEN 1 ELSE 0)
                      /\ sel.bytes[1] \div 16 = sel.h.num_games
        /\ \A c \in WrittenCells :
              /\ Min(Len(GamesOf(entry, c[1], c[2])), MAX_PLAYER_GAMES) <= 8
              /\ GroupWellFormed(c, Min(Len(GamesOf(entry, c[1], c[2])), MAX_PLAYER_GAMES))

\* The header of test_header_roundtrip: Rated, Correspondence, 15 games.
C32_Witness ==
    /\ kind = "player" /\ HeaderTried
    /\ sel.h = HeaderGroup("Correspondence", "Rated", 15)
    /\ sel.bytes = <<254>>

\* A player entry with a cell of nine games has been written and read back.
C32_WitnessWrite ==
    /\ kind = "player" /\ last.op = "roundtrip"
    /\ \E c \in WrittenCells :
          /\ Len(GamesOf(entry, c[1], c[2])) = MAX_PLAYER_GAMES
          /\ StatsTotal(GroupAt(entry, c[1], c[2]).stats) = 9

(***************************************************************************)
(* Claims about the reader's errors                                        *)
(***************************************************************************)
ReadTried == sel # NoCall /\ sel.fn = "read"

\* C33: extend_from_reader returns Ok when the input ends right after a
\* group's games or when an End marker is followed by a new move section, and
\* returns an error when a header byte has speed bits 7 or when the input ends
\* inside a group: inside its stats, a game-index varint or a game id.
C33_ReaderErrors ==
    ReadTried =>
        /\ sel.where = "after_games" =>
              /\ sel.err = "none"
              /\ Len(GamesOf(entry, E2E4, <<"Blitz", DamagedPart(kind)>>)) >= 2
        /\ sel.where = "end_then_uci" =>
              /\ sel.err = "none"
              /\ Len(GamesOf(entry, E2E4, <<"Blitz", DamagedPart(kind)>>)) >= 2
              /\ Len(GamesOf(entry, D2D4, <<"Rapid", DamagedPart(kind)>>)) >= 1
        /\ sel.where = "bad_speed" => sel.err = "InvalidData"
        /\ sel.where \in {"in_stats", "in_game_idx", "in_game_id"} =>
              sel.err = "UnexpectedEof"

\* The input ends after the first byte of the two-byte index of the second game.
C33_Witness ==
    /\ ReadTried
    /\ sel.where = "in_game_idx" /\ sel.cut = 1
    /\ sel.bytes[Len(sel.bytes)] >= 128
    /\ sel.err = "UnexpectedEof"

\* An input that ends inside the count varint of a header or inside a move is
\* accepted.
C33_WitnessTolerated ==
    /\ ReadTried
    /\ sel.where \in {"in_header", "in_uci"}
    /\ sel.err = "none"

(***************************************************************************)
(* Personal codec (model/personal.rs): SubEntry                            *)
(***************************************************************************)
\* const MAX_GAMES: usize = 15; // 4 bits
MAX_GAMES == 15

\* personal.rs Stats: white, draw, black
PersonalStatsDefault == [white |-> 0, draw |-> 0, black |-> 0]
PersonalStatsWrite(st) == WriteUint(st.white) \o WriteUint(st.draw) \o WriteUint(st.black)
PersonalStatsRead(b, i) ==
    LET w == ReadUint(b, i) IN
    IF w.err # "none" THEN w ELSE
    LET d == ReadUint(b, w.pos) IN
    IF d.err # "none" THEN d ELSE
    LET k == ReadUint(b, d.pos) IN
    IF k.err # "none" THEN k ELSE
    Got([white |-> w.val, draw |-> d.val, black |-> k.val], k.pos)

PersonalGroupDefault == [stats |-> PersonalStatsDefault, games |-> <<>>]
\* SubEntry::default()
PersonalSubEntryDefault ==
    [inner |-> [sp \in Speeds |-> [m \in Modes |-> PersonalGroupDefault]],
     max_game_idx |-> 0]

\* for _ in 0..num_games: read_u8 game index, GameId
RECURSIVE PersonalReadGames(_, _, _, _, _)
PersonalReadGames(b, i, n, max_game_idx, games) ==
    IF n = 0
    THEN [err |-> "none", pos |-> i, max_game_idx |-> max_game_idx, games |-> games]
    ELSE
    LET r == ReadU8(b, i) IN
    IF r.err # "none"
    THEN [err |-> r.err, pos |-> i, max_game_idx |-> max_game_idx, games |-> games]
    ELSE
    LET g == ReadGameId(b, r.pos) IN
    IF g.err # "none"
    THEN [err |-> g.err, pos |-> r.pos, max_game_idx |-> Max(max_game_idx, r.val),
          games |-> games]
    ELSE PersonalReadGames(b, g.pos, n - 1, Max(max_game_idx, r.val),
                           Append(games, <<r.val, g.val>>))

\* SubEntry::read: groups until End; a group replaces the cell's group.
RECURSIVE PersonalSubEntryReadFrom(_, _, _)
PersonalSubEntryReadFrom(acc, b, i) ==
    LET h == PlayerHeaderRead(b, i) IN
    IF h.err # "none" THEN [err |-> h.err, sub_entry |-> acc]
    ELSE IF h.val.tag = "End" THEN [err |-> "none", sub_entry |-> acc]
    ELSE
    LET st == PersonalStatsRead(b, h.pos) IN
    IF st.err # "none" THEN [err |-> st.err, sub_entry |-> acc]
    ELSE
    LET gs == PersonalReadGames(b, st.pos, h.val.num_games, acc.max_game_idx, <<>>) IN
    IF gs.err # "none"
    THEN [err |-> gs.err, sub_entry |-> [acc EXCEPT !.max_game_idx = gs.max_game_idx]]
    ELSE PersonalSubEntryReadFrom(
            [acc EXCEPT !.max_game_idx = gs.max_game_idx,
                        !.inner[h.val.speed][h.val.part] =
                            [stats |-> st.val, games |-> gs.games]],
            b, gs.pos)
PersonalSubEntryRead(b) == PersonalSubEntryReadFrom(PersonalSubEntryDefault, b, 1)

\* for (game_idx, game) in group.games.iter().take(num_games)
PersonalWriteGames(games, num_games) ==
    Flatten([k \in 1..num_games |->
                <<games[k][1] % 256>> \o WriteGameId(games[k][2])])

\* SubEntry::write: a group for every cell, then End.
PersonalSubEntryWrite(sub_entry) ==
    Flatten([si \in 1..6 |-> Flatten([mi \in 1..2 |->
        LET group == sub_entry.inner[SpeedALL[si]][ModeALL[mi]]
            num_games == Min(Len(group.games), MAX_GAMES)
        IN  PlayerHeaderWrite(HeaderGroup(SpeedALL[si], ModeALL[mi], num_games))
                \o PersonalStatsWrite(group.stats)
                \o PersonalWriteGames(group.games, num_games)])])
    \o PlayerHeaderWrite(HeaderEnd)

\* Stored bytes of a sub-entry: one or two groups, the games of a group in
\* ascending order of game index.
PersonalBlobGroup(speed, mode, first, n) ==
    PlayerHeaderWrite(HeaderGroup(speed, mode, n))
        \o PersonalStatsWrite([white |-> n, draw |-> first, black |-> 1])
        \o Flatten([k \in 1..n |-> <<first + k - 1>> \o WriteGameId(GameIdOf(first + k - 1))])
PersonalBlobs ==
    {PersonalBlobGroup(speed, mode, 0, n) \o <<0>> :
        speed \in Speeds, mode \in Modes, n \in 0..MAX_GAMES}
    \cup {PersonalBlobGroup("Blitz", "Rated", 0, 2)
            \o PersonalBlobGroup(speed, "Casual", 2, n) \o <<0>> :
                speed \in {"Blitz", "Rapid"}, n \in {1, 9}}

InitPersonal ==
    /\ NoLoader /\ NoStatus
    /\ kind = "personal"
    /\ entry = PersonalSubEntryDefault
    /\ operand = EntryDefault
    /\ created = <<>>
    /\ last = NoOp
    /\ sel = NoCall
    /\ games_db = <<>> /\ entries_db = <<>> /\ pc = <<>> /\ req = <<>>
    /\ ret = <<>> /\ hist = <<>> /\ ncalls = 0

\* SubEntry::read(&mut reader)
PersonalRead(b) ==
    /\ sel = NoCall
    /\ last.op = "none"
    /\ LET r == PersonalSubEntryRead(b)
       IN  /\ r.err = "none"
           /\ entry' = r.sub_entry
    /\ last' = [op |-> "read"]
    /\ UNCHANGED <<kind, operand, created, importVars, sel, loaderVars, statusVars>>

\* sub_entry.write(&mut writer); the bytes are read back for inspection.
PersonalWrite ==
    /\ sel = NoCall
    /\ last.op = "read"
    /\ sel' = [fn |-> "personal_write", bytes |-> PersonalSubEntryWrite(entry),
               out |-> PersonalSubEntryRead(PersonalSubEntryWrite(entry))]
    /\ UNCHANGED <<codecVars, importVars, loaderVars, statusVars>>

NextPersonal ==
    \/ \E b \in PersonalBlobs : PersonalRead(b)
    \/ PersonalWrite

SpecPersonal == InitPersonal /\ [][NextPersonal]_vars

PersonalWritten == sel # NoCall /\ sel.fn = "personal_write"
PersonalCells == Speeds \X Modes
PersonalGames(sub_entry, c) == sub_entry.inner[c[1]][c[2]].games

\* C34: SubEntry::write of the personal codec emits at most MAX_PLAYER_GAMES = 8
\* games per (speed, mode) cell and, when a cell holds more, keeps the games
\* with the largest game indices.
C34_PersonalWriteKeepsNewest ==
    PersonalWritten =>
        /\ sel.out.err = "none"
        /\ \A c \in PersonalCells :
              LET held == PersonalGames(entry, c)
                  emitted == PersonalGames(sel.out.sub_entry, c)
              IN  /\ Len(emitted) = Min(Len(held), MAX_PLAYER_GAMES)
                  /\ \A i \in 1..Len(emitted) : \A j \in 1..Len(held) :
                        \/ held[j][1] <= emitted[i][1]
                        \/ \E k \in 1..Len(emitted) : emitted[k] = held[j]

(***************************************************************************)
(* Claims about the game lists and stats of merged entries                 *)
(***************************************************************************)
StrictlyAscending(games) ==
    \A i \in 1..(Len(games) - 1) : games[i][1] < games[i + 1][1]

\* C35: in every partition of an entry built from new_single blobs by merges
\* (one extend_from_reader call per blob) and re-encodings, the games are
\* stored in strictly ascending order of game index, so the last element has
\* the largest index and a prefix of the list holds the smallest ones.
C35_GamesAscending ==
    \A e \in {entry, operand} : \A uci \in UcisOf(e) : \A cell \in Cells(kind) :
        StrictlyAscending(GamesOf(e, uci, cell))

\* A re-encoded entry with a cell of at least three games, after a merge of an
\* operand that itself was merged from several blobs.
C35_Witness ==
    /\ last.op = "reencode"
    /\ EntryTotal(kind, operand) >= 2
    /\ \E uci \in UcisOf(entry) : \E cell \in Cells(kind) :
          Len(GamesOf(entry, uci, cell)) >= 3

\* The stats of a cell of e, the default stats if e has no such move.
StatsAt(e, uci, cell) ==
    IF uci \in UcisOf(e) THEN GroupAt(e, uci, cell).stats ELSE StatsDefault

\* No counter and no rating sum of e is larger than in f.
StatsGrow(e, f) ==
    \A uci \in UcisOf(e) : \A cell \in Cells(kind) : \A field \in DOMAIN StatsDefault :
        StatsAt(e, uci, cell)[field] <= StatsAt(f, uci, cell)[field]

GamesWithinStats(e) ==
    \A uci \in UcisOf(e) : \A cell \in Cells(kind) :
        Len(GamesOf(e, uci, cell)) <= StatsTotal(GroupAt(e, uci, cell).stats)

\* C36: across merges and re-encodings of an entry built from new_single
\* blobs, the white/draws/black counters and the rating sum of every partition
\* never decrease, and in every partition the number of stored games never
\* exceeds stats.total().
C36_StatsNeverShrink ==
    /\ [](GamesWithinStats(entry) /\ GamesWithinStats(operand))
    /\ [][/\ StatsGrow(entry, entry')
          /\ last'.op # "new_single" => StatsGrow(operand, operand')]_vars

\* A re-encoding has cut a game list: the cell holds fewer games than its stats
\* count.
C36_Witness ==
    /\ last.op = "reencode"
    /\ \E uci \in UcisOf(entry) : \E cell \in Cells(kind) :
          /\ Len(GamesOf(entry, uci, cell)) = MaxGames(kind)
          /\ StatsTotal(GroupAt(entry, uci, cell).stats) > MaxGames(kind)

(***************************************************************************)
(* The Group2800 partition                                                 *)
(***************************************************************************)
\* C37: select never returns Group2800, for any pair of ratings, so the
\* single-game entry that new_single builds from the pair leaves the Group2800
\* partition of its move empty for every speed.
C37_Group2800Unused ==
    (sel # NoCall /\ sel.fn = "select") =>
        /\ sel.out # "Group2800"
        /\ \A speed \in Speeds :
              LET single == LichessNewSingle(E2E4, speed, GameIdOf(0), "draw",
                                             sel.mover, sel.opponent)
              IN  /\ \A sp \in Speeds :
                        GroupAt(single, E2E4, <<sp, "Group2800">>) = GroupDefault
                  /\ GamesOf(single, E2E4, <<speed, sel.out>>) # <<>>

\* Two players rated 2800.
C37_Witness ==
    /\ sel # NoCall /\ sel.fn = "select"
    /\ sel.mover = 2800 /\ sel.opponent = 2800
    /\ sel.out = "Group3200"

(***************************************************************************)
(* PlayerStatus: the indexing cursor of one player (player.rs 252-351)     *)
(***************************************************************************)
\* Times are whole seconds since the epoch, as PlayerStatus::write stores them.
\* The clock moves at most this many times.
MaxTicks == 3

\* Duration::from_secs(60) in maybe_index.
IndexCooldown == 60

\* Duration::from_secs(24 * 60 * 60) in maybe_revisit_ongoing.
RevisitInterval == 24 * 60 * 60

Index(after) == [run |-> "Index", after |-> after]
Revisit(since) == [run |-> "Revisit", since |-> since]

PlayerStatusDefault ==
    [latest_created_at |-> 0,
     revisit_ongoing_created_at |-> None,
     indexed_at |-> 0,
     revisited_at |-> 0]

\* SystemTime::duration_since: the elapsed time, or Err when `earlier` is later
\* than `self`.
duration_since(self, earlier) ==
    IF earlier <= self THEN [err |-> "none", val |-> self - earlier]
    ELSE [err |-> "SystemTimeError", val |-> 0]

\* The method takes &mut self: the result carries the status it leaves behind.
maybe_revisit_ongoing(self, t) ==
    LET elapsed == duration_since(t, self.revisited_at)
        waited == IF elapsed.err = "none" THEN elapsed.val ELSE 0
    IN  [self |-> self,
         out |-> IF waited > RevisitInterval
                 THEN IF self.revisit_ongoing_created_at = None THEN None
                      ELSE Some(Revisit(self.revisit_ongoing_created_at[1]))
                 ELSE None]

maybe_indexAtCooldown(self, t) ==
    LET elapsed == duration_since(t, self.indexed_at)
    IN  IF elapsed.err = "none" /\ elapsed.val >= IndexCooldown
        THEN Some(Index(self.latest_created_at))
        ELSE None

maybe_index(self, t) ==
    LET elapsed == duration_since(t, self.indexed_at)
    IN  IF elapsed.err = "none" /\ elapsed.val > IndexCooldown
        THEN Some(Index(self.latest_created_at))
        ELSE None

finish_runAlwaysRevisited(self, run, t) ==
    [self EXCEPT !.indexed_at = t, !.revisited_at = t]

finish_run(self, run, t) ==
    [self EXCEPT !.indexed_at = t,
                 !.revisited_at = IF run.run = "Revisit" THEN t ELSE @]

PlayerStatusWrite(self) ==
    WriteUint(self.latest_created_at)
        \o WriteUint(IF self.revisit_ongoing_created_at = None THEN 0
                     ELSE self.revisit_ongoing_created_at[1])
        \o WriteUint(self.indexed_at)
        \o WriteUint(self.revisited_at)

PlayerStatusRead(b) ==
    LET latest == ReadUint(b, 1)
        cursor == ReadUint(b, latest.pos)
        indexed == ReadUint(b, cursor.pos)
        revisited == ReadUint(b, indexed.pos)
    IN  IF latest.err # "none" THEN Fail(latest.err)
        ELSE IF cursor.err # "none" THEN Fail(cursor.err)
        ELSE IF indexed.err # "none" THEN Fail(indexed.err)
        ELSE IF revisited.err # "none" THEN Fail(revisited.err)
        ELSE Got([latest_created_at |-> latest.val,
                  revisit_ongoing_created_at |->
                      IF cursor.val # 0 THEN Some(cursor.val) ELSE None,
                  indexed_at |-> indexed.val,
                  revisited_at |-> revisited.val],
                 revisited.pos)

\* The instant at which the indexer picks the player up.
StartInstants == {1700000000}

\* Statuses found in the store.  The fields are public and the store is shared:
\* the cursors are whatever the scheduler left, and the timestamps may have
\* been taken from a clock that was ahead of this one.
StoredStatuses ==
    {[latest_created_at |-> l, revisit_ongoing_created_at |-> c,
      indexed_at |-> i, revisited_at |-> r] :
        l \in {7}, c \in {None, Some(0), Some(3)},
        i \in {1699999970, 1700200000},
        r \in {1699900000, 1700200000}}

\* The runs the scheduler may report as finished.
FinishedRuns == {Index(7), Revisit(3)}

\* How far the clock moves between two calls.
Delays == {IndexCooldown, IndexCooldown + 1, RevisitInterval, RevisitInterval + 1}

InitStatus ==
    /\ kind = "status"
    /\ now \in StartInstants
    /\ \/ /\ status = PlayerStatusDefault
          /\ log = [origin |-> "default", finished |-> None, ticks |-> 0]
       \/ /\ status \in {PlayerStatusRead(PlayerStatusWrite(s)).val :
                            s \in StoredStatuses}
          /\ log = [origin |-> "read", finished |-> None, ticks |-> 0]
    /\ sel = NoCall
    /\ entry = EntryDefault /\ operand = EntryDefault /\ created = {} /\ last = NoOp
    /\ games_db = <<>> /\ entries_db = <<>> /\ pc = <<>> /\ req = <<>>
    /\ ret = <<>> /\ hist = <<>> /\ ncalls = 0
    /\ NoLoader

\* The clock never runs backwards.
Tick(d) ==
    /\ kind = "status"
    /\ log.ticks < MaxTicks
    /\ now' = now + d
    /\ log' = [log EXCEPT !.ticks = @ + 1]
    /\ UNCHANGED <<status, codecVars, importVars, sel, loaderVars>>

MaybeIndex ==
    /\ kind = "status"
    /\ sel' = [fn |-> "maybe_index", status |-> status, now |-> now,
               out |-> maybe_index(status, now)]
    /\ UNCHANGED <<status, now, log, codecVars, importVars, loaderVars>>

MaybeRevisitOngoing ==
    /\ kind = "status"
    /\ LET r == maybe_revisit_ongoing(status, now)
       IN  /\ status' = r.self
           /\ sel' = [fn |-> "maybe_revisit_ongoing", status |-> status,
                      now |-> now, out |-> r.out]
    /\ UNCHANGED <<now, log, codecVars, importVars, loaderVars>>

FinishRun(run) ==
    /\ kind = "status"
    /\ status' = finish_run(status, run, now)
    /\ log' = [log EXCEPT !.finished = Some(now)]
    /\ sel' = [fn |-> "finish_run", status |-> status, now |-> now, out |-> Some(run)]
    /\ UNCHANGED <<now, codecVars, importVars, loaderVars>>

NextStatus ==
    \/ \E d \in Delays : Tick(d)
    \/ MaybeIndex
    \/ MaybeRevisitOngoing
    \/ \E run \in FinishedRuns : FinishRun(run)

SpecStatus == InitStatus /\ [][NextStatus]_vars

StatusCall(fn) == kind = "status" /\ sel # NoCall /\ sel.fn = fn

\* C38: finish_run sets indexed_at to the current time, sets revisited_at to
\* that same time exactly when the run is a Revisit, and leaves both cursors
\* alone; maybe_index and maybe_revisit_ongoing leave the whole status alone; a
\* status that started as the default has revisited_at <= indexed_at after any
\* sequence of these calls.
C38_FinishRunTimestamps ==
    /\ StatusCall("finish_run") =>
          /\ status.indexed_at = sel.now
          /\ status.revisited_at =
                IF sel.out[1].run = "Revisit" THEN sel.now
                ELSE sel.status.revisited_at
          /\ status.latest_created_at = sel.status.latest_created_at
          /\ status.revisit_ongoing_created_at =
                sel.status.revisit_ongoing_created_at
    /\ (StatusCall("maybe_index") \/ StatusCall("maybe_revisit_ongoing")) =>
          status = sel.status
    /\ (kind = "status" /\ log.origin = "default") =>
          status.revisited_at <= status.indexed_at

\* An Index run has finished after a Revisit run: the two timestamps differ.
C38_Witness ==
    /\ StatusCall("finish_run")
    /\ log.origin = "default"
    /\ sel.out[1].run = "Index"
    /\ sel.status.revisited_at > 0
    /\ status.revisited_at < status.indexed_at

\* A Revisit run has finished on a status read from the store.
C38_WitnessRevisit ==
    /\ StatusCall("finish_run")
    /\ sel.out[1].run = "Revisit"
    /\ sel.status.revisited_at # sel.now
    /\ status.revisited_at = sel.now

\* C39: maybe_index returns Index with after = latest_created_at, and only when
\* more than 60 seconds have passed since indexed_at, so it returns None from a
\* finish_run until the cooldown has elapsed; maybe_revisit_ongoing returns
\* Revisit only when more than 24 hours have passed since revisited_at and a
\* revisit cursor is set; a timestamp in the future yields None in both.
C39_Cooldowns ==
    /\ StatusCall("maybe_index") =>
          /\ sel.out # None =>
                /\ sel.out = Some(Index(sel.status.latest_created_at))
                /\ sel.now - sel.status.indexed_at > 60
          /\ (log.finished # None /\ sel.now - log.finished[1] <= 60) =>
                sel.out = None
          /\ sel.status.indexed_at > sel.now => sel.out = None
    /\ StatusCall("maybe_revisit_ongoing") =>
          /\ sel.out # None =>
                /\ sel.now - sel.status.revisited_at > 86400
                /\ sel.status.revisit_ongoing_created_at # None
                /\ sel.out =
                      Some(Revisit(sel.status.revisit_ongoing_created_at[1]))
          /\ sel.status.revisited_at > sel.now => sel.out = None

\* maybe_index is asked exactly 60 seconds after a run finished.
C39_Witness ==
    /\ StatusCall("maybe_index")
    /\ log.finished # None
    /\ sel.now - log.finished[1] = 60
    /\ sel.out = None

\* maybe_index is asked 61 seconds after a run finished.
C39_WitnessIndex ==
    /\ StatusCall("maybe_index")
    /\ log.finished # None
    /\ sel.now - log.finished[1] = 61
    /\ sel.out # None

\* A revisit is due: the cursor is set and over 24 hours have passed.
C39_WitnessRevisit ==
    /\ StatusCall("maybe_revisit_ongoing")
    /\ sel.out # None

\* Both timestamps lie in the future and the revisit cursor is set.
C39_WitnessFuture ==
    /\ sel # NoCall
    /\ sel.fn \in {"maybe_index", "maybe_revisit_ongoing"}
    /\ sel.status.indexed_at > sel.now
    /\ sel.status.revisited_at > sel.now
    /\ sel.status.revisit_ongoing_created_at # None
    /\ sel.out = None
====
